---- MODULE Spec2Model ----
(***************************************************************************)
(* The aspatial simulation engine of ws3 (src/woodstock.py): the           *)
(* per-development-type age-class ledger, the compiled operability         *)
(* windows, apply_action and its transitions, growth, and the applied-     *)
(* action ledger.                                                          *)
(*                                                                         *)
(* Areas are exact integers (hectares); a target proportion is the integer *)
(* percentage read by the loader, and area*tprop is area*pct/Percent.  The *)
(* calls explored are those for which that product is a whole number, so   *)
(* that the arithmetic of the model is the arithmetic of the reals (the    *)
(* code computes in floating point).                                       *)
(*                                                                         *)
(* An exception that leaves a call ends the run: the state it leaves       *)
(* behind is kept (halted = TRUE) and no further call is made.             *)
(***************************************************************************)
EXTENDS Integers, Sequences, FiniteSets, TLC

\* ------------------------------------------------------------------ bounds
\* calls made per run (compile_actions and initialize_areas, which a run may
\* repeat without effect, are not counted)
MaxCalls == 2

\* ------------------------------------------------------- program constants
\* tprop = float(token) * 0.01: proportions are percentages
Percent == 100
\* area_epsilon, in hectares: every whole area below it is 0
AreaEpsilon == 1

\* ------------------------------------------------------- python primitives
None == << >>
Some(n) == << n >>
Val(o) == o[1]

EmptyDict == << >>
\* a dictionary held as the explicit table of its items
Dict(f) == f @@ << >>
Put(d, k, v) == Dict([x \in (DOMAIN d) \cup {k} |-> IF x = k THEN v ELSE d[x]])
Get(d, k, default) == IF k \in DOMAIN d THEN d[k] ELSE default
Del(d, k) == Dict([x \in (DOMAIN d) \ {k} |-> d[x]])

\* a value computed once and named in what follows
Let(v, F(_)) == F(v)

Max2(a, b) == IF a >= b THEN a ELSE b
Min2(a, b) == IF a <= b THEN a ELSE b
Abs(x) == IF x < 0 THEN 0 - x ELSE x
\* Python 2 orders None below every number
PyMax(a, b) == IF a = None THEN b ELSE IF b = None THEN a ELSE Some(Max2(Val(a), Val(b)))
PyMin(a, b) == IF a = None \/ b = None THEN None ELSE Some(Min2(Val(a), Val(b)))
PyGT(a, b) == IF a = None THEN FALSE ELSE IF b = None THEN TRUE ELSE Val(a) > Val(b)

RECURSIVE SumOver(_, _)
SumOver(d, S) == IF S = {} THEN 0
                 ELSE LET k == CHOOSE x \in S : TRUE IN d[k] + SumOver(d, S \ {k})
DictSum(d) == SumOver(d, DOMAIN d)

VARIABLES horizon, max_age, actions, oper_expr, transitions, outputs, dtypes,
          applied_actions, last, ncalls, halted, selector, curves, heap

vars == << horizon, max_age, actions, oper_expr, transitions, outputs, dtypes,
           applied_actions, last, ncalls, halted, selector, curves, heap >>

\* the curve registry and the Curve objects it refers to
curvestate == << curves, heap >>

\* the model as loaded: never changed by a call
loaded == << horizon, max_age, actions, oper_expr, transitions, outputs >>

\* ---------------------------------------------------------- model records
\* one *TARGET line: (tmask, tprop, tage, tlock, treplace, tappend)
Target(tmask, pct, tage) ==
    [tmask |-> tmask, tprop |-> pct, tage |-> tage, tlock |-> None,
     treplace |-> None, tappend |-> None]
Cond(lhs, rel, rhs) == [lhs |-> lhs, rel |-> rel, rhs |-> rhs]
\* an operability expression, split as _compile_oper_expr splits it
Expr(oper, conds) == [oper |-> oper, conds |-> conds]
Wild == << "?", "?" >>

\* A scenario is a model as built: WoodstockModel(horizon, max_age), its
\* actions Action(code, targetage), the operability and transition tables and
\* the starting inventory of the areas section.
\* Scenario "regen": every transition routes 100 %.
ScRegen ==
    [horizon |-> 2, max_age |-> 3,
     actions |-> [harv |-> [targetage |-> Some(0)], thin |-> [targetage |-> None]],
     oper_expr |->
       [harv |-> << [mask |-> Wild,
                     expr |-> Expr("and", << Cond("_age", ">=", 1), Cond("_age", "<=", 3) >>)] >>,
        thin |-> << [mask |-> Wild,
                     expr |-> Expr("and", << Cond("_cp", "=", 1), Cond("_age", ">=", 1) >>)] >>],
     transitions |->
       [harv |-> << [smask |-> Wild, scond |-> None,
                     targets |-> << Target(Wild, 100, None) >>] >>,
        thin |-> << [smask |-> Wild, scond |-> None,
                     targets |-> << Target(<< "?", "2" >>, 100, None) >>] >>],
     inventory |-> << [key |-> << "a", "1" >>, age |-> 2, area |-> 2],
                      [key |-> << "a", "1" >>, age |-> 1, area |-> 2] >>]

\* Scenario "split": harvest splits 50/50 between the source type (action's
\* target age) and another type with an explicit age override; thinning
\* belongs to an action built with a non-zero target age.
ScSplit ==
    [horizon |-> 2, max_age |-> 3,
     actions |-> [harv |-> [targetage |-> Some(0)], thin |-> [targetage |-> Some(2)]],
     oper_expr |->
       [harv |-> << [mask |-> Wild,
                     expr |-> Expr("and", << Cond("_age", ">=", 1), Cond("_age", "<=", 3) >>)] >>,
        thin |-> << [mask |-> << "a", "?" >>,
                     expr |-> Expr("and", << Cond("_age", ">=", 2), Cond("_age", "<=", 2) >>)] >>],
     transitions |->
       [harv |-> << [smask |-> Wild, scond |-> None,
                     targets |-> << Target(Wild, 50, None),
                                    Target(<< "b", "?" >>, 50, Some(1)) >>] >>,
        thin |-> << [smask |-> Wild, scond |-> None,
                     targets |-> << Target(Wild, 100, None) >>] >>],
     inventory |-> << [key |-> << "a", "1" >>, age |-> 2, area |-> 2] >>]

\* Scenario "lossy": harvest routes only 50 % (proportions sum to less than
\* 1); thinning has transitions for ages 2..3 only and keeps the source age.
ScLossy ==
    [horizon |-> 2, max_age |-> 3,
     actions |-> [harv |-> [targetage |-> Some(0)], thin |-> [targetage |-> None]],
     oper_expr |->
       [harv |-> << [mask |-> Wild,
                     expr |-> Expr("and", << Cond("_age", ">=", 1), Cond("_age", "<=", 3) >>)] >>,
        thin |-> << [mask |-> Wild,
                     expr |-> Expr("and", << Cond("_age", ">=", 1), Cond("_age", "<=", 3) >>)] >>],
     transitions |->
       [harv |-> << [smask |-> Wild, scond |-> None,
                     targets |-> << Target(<< "?", "2" >>, 50, None) >>] >>,
        thin |-> << [smask |-> Wild, scond |-> << 2, 3 >>,
                     targets |-> << Target(Wild, 100, None) >>] >>],
     inventory |-> << [key |-> << "a", "1" >>, age |-> 2, area |-> 2],
                      [key |-> << "b", "1" >>, age |-> 1, area |-> 2] >>]

Scenarios == { ScRegen, ScSplit, ScLossy }


\* ------------------------------------------------- masks and new types
\* theme hierarchy without aggregate codes: a code expands to itself
ExpandTheme(ti, tac) == { tac }

\* mutant: every mask matches every key
MatchMask_Any(mask, key) == TRUE

MatchMask(mask, key) ==
    \A ti \in 1..Len(mask) :
        mask[ti] = "?" \/ key[ti] \in ExpandTheme(ti, mask[ti])

\* ages selected by a *SOURCE condition: none, or @AGE(lo..hi)
ResolveCondition(scond) ==
    IF scond = None THEN 0..max_age ELSE scond[1]..scond[2]

\* the expressions create_dtype_fromkey appends for one action
RECURSIVE MatchingExprs(_, _, _)
MatchingExprs(entries, i, key) ==
    IF i > Len(entries) THEN << >>
    ELSE (IF MatchMask(entries[i].mask, key) THEN << entries[i].expr >> ELSE << >>)
         \o MatchingExprs(entries, i + 1, key)

\* entries of one action's transition table that assign (key, age)
TransEntries(acode, key, x) ==
    { i \in 1..Len(transitions[acode]) :
        /\ MatchMask(transitions[acode][i].smask, key)
        /\ x \in ResolveCondition(transitions[acode][i].scond) }

SetMax(S) == CHOOSE m \in S : \A n \in S : n <= m

NewAreas == Dict([p \in 0..horizon |-> EmptyDict])

\* DevelopmentType(key, parent) with its yields, actions and transitions
CreateDType(key) ==
    LET defined == { a \in DOMAIN oper_expr : MatchingExprs(oper_expr[a], 1, key) # << >> }
        ages(a) == UNION { ResolveCondition(transitions[a][i].scond) :
                              i \in 1..Len(transitions[a]) }
        pairs == UNION { { << a, x >> : x \in { y \in ages(a) : TransEntries(a, key, y) # {} } } :
                            a \in DOMAIN oper_expr }
    IN [key |-> key,
        areas |-> NewAreas,
        oper_expr |-> Dict([a \in defined |-> MatchingExprs(oper_expr[a], 1, key)]),
        operability |-> EmptyDict,
        transitions |->
            Dict([pr \in pairs |->
                    transitions[pr[1]][SetMax(TransEntries(pr[1], key, pr[2]))].targets])]

\* --------------------------------------------------------- area ledger
\* dt.area(period, age): a read; the defaultdict gains the age it is asked for
AreaRead(dt, period, age) ==
    IF period \notin DOMAIN dt.areas THEN [dt |-> dt, val |-> 0]
    ELSE IF age \in DOMAIN dt.areas[period]
         THEN [dt |-> dt, val |-> dt.areas[period][age]]
         ELSE [dt |-> [dt EXCEPT !.areas[period] = Put(@, age, 0)], val |-> 0]

\* mutant: the delta flag is ignored, every write is absolute
AreaWrite_Absolute(dt, period, age, area, delta) ==
    [dt EXCEPT !.areas[period] = Put(@, age, area)]

\* mutant: a write that leaves no area in the bucket deletes the bucket
AreaWrite_Pruning(dt, period, age, area, delta) ==
    [dt EXCEPT !.areas[period] =
        IF (IF delta THEN Get(@, age, 0) + area ELSE area) = 0
        THEN Del(@, age)
        ELSE Put(@, age, IF delta THEN Get(@, age, 0) + area ELSE area)]

\* dt.area(period, age, area, delta): a write
AreaWrite(dt, period, age, area, delta) ==
    [dt EXCEPT !.areas[period] =
        Put(@, age, IF delta THEN Get(@, age, 0) + area ELSE area)]

\* area of a bucket, without touching it
AreaOf(dt, period, age) ==
    IF period \in DOMAIN dt.areas THEN Get(dt.areas[period], age, 0) ELSE 0

\* total area of a period
PeriodArea(dt, period) ==
    IF period \in DOMAIN dt.areas THEN DictSum(dt.areas[period]) ELSE 0

ResetAreas(dt, period) ==
    [dt EXCEPT !.areas = Put(@, period, EmptyDict)]

\* mutant: the next period is not reset before the buckets are shifted into it
GrowStep_KeepsTarget(dt, p) ==
    [dt EXCEPT !.areas[p + 1] =
        Dict([a \in { x + 1 : x \in DOMAIN dt.areas[p] } \cup DOMAIN dt.areas[p + 1] |->
            IF a - 1 \in DOMAIN dt.areas[p] THEN dt.areas[p][a - 1] ELSE dt.areas[p + 1][a]])]

\* one pass of the loop of DevelopmentType.grow
GrowStep(dt, p) ==
    LET src == dt.areas[p]
        shifted == Dict([a \in { x + 1 : x \in DOMAIN src } |-> src[a - 1]])
    IN [dt EXCEPT !.areas = Put(@, p + 1, shifted)]

RECURSIVE GrowFrom(_, _, _)
GrowFrom(dt, p, end_period) ==
    IF p >= end_period THEN dt ELSE GrowFrom(GrowStep(dt, p), p + 1, end_period)

\* DevelopmentType.grow(start_period, cascade)
Grow(dt, start_period, cascade) ==
    GrowFrom(dt, start_period, IF cascade THEN horizon ELSE start_period + 1)

\* DevelopmentType.initialize_areas
InitializeAreas(dt) == [dt EXCEPT !.areas[1] = dt.areas[0]]


\* ------------------------------------------------ operability compiler
\* the yield components bound to every development type, as the points of
\* their curves; a development type has no other yield component
YieldCurves == [yvol |-> << << 0, 0 >>, << 3, 6 >> >>,
                yland |-> << << 0, 0 >>, << 3, 6 >> >>]

\* int(a / b) for whole a and b: the quotient, cut towards zero
TruncDiv(a, b) ==
    IF (a >= 0) = (b > 0) THEN Abs(a) \div Abs(b) ELSE 0 - (Abs(a) \div Abs(b))

\* Curve.lookup(y) = int(Interpolator.lookup(y)) over the points pts: i is
\* bisect_left(self.y, y) - 1, and an index of -1 is Python's last element
InterpLookup(pts, y) ==
    Let(Cardinality({ j \in 1..Len(pts) : pts[j][2] < y }) - 1, LAMBDA i :
        IF i = Len(pts) - 1 THEN pts[Len(pts)][1]
        ELSE LET pt == IF i < 0 THEN Len(pts) ELSE i + 1
                 seg == IF i < 0 THEN Len(pts) - 1 ELSE i + 1
                 dx == pts[seg + 1][1] - pts[seg][1]
                 dy == pts[seg + 1][2] - pts[seg][2]
             IN IF dy = 0 THEN pts[pt][1]
                ELSE TruncDiv(pts[pt][1] * dy + (y - pts[pt][2]) * dx, dy))

\* the names of the model in which the letters "and" occur
HasAnd(name) == name = "yland"

\* the operator _compile_oper_expr finds: 'and' if the letters occur anywhere
\* in the expression, else 'or' if those occur, else none ("")
OperOf(expr) ==
    IF expr.oper = "and" \/ \E i \in 1..Len(expr.conds) : HasAnd(expr.conds[i].lhs)
    THEN "and" ELSE expr.oper

\* expr.split(' %s ' % oper) leaves the expression whole when oper is not
\* the word that joins its conditions, and the unpacking of zip(...) into
\* lhs, rel_operators, rhs then finds more than three tuples
SplitFails(expr) == Len(expr.conds) > 1 /\ OperOf(expr) # expr.oper

\* the age a condition on _age or on a yield component bounds
AgeBound(c) ==
    IF c.lhs = "_age" THEN c.rhs ELSE InterpLookup(YieldCurves[c.lhs], c.rhs)

\* locals of _compile_oper_expr before its loop
CompileStart(oper) ==
    [plo |-> Some(1), phi |-> Some(horizon),
     alo |-> IF oper = "or" THEN max_age + 1 ELSE 0,
     ahi |-> IF oper = "or" THEN 0 - 1 ELSE max_age,
     xplo |-> None, xphi |-> None, xalo |-> None, xahi |-> None,
     err |-> ""]

\* mutant: bounds are merged as under 'or', whatever the operator
MergeAges_Widen(st, oper) ==
    [st EXCEPT !.alo = IF st.xalo # None THEN Min2(Val(st.xalo), @) ELSE @,
               !.ahi = IF st.xahi # None THEN Max2(Val(st.xahi), @) ELSE @]

\* the tail of the loop body: merge _alo, _ahi into alo, ahi
MergeAges(st, oper) ==
    IF oper = "and"
    THEN [st EXCEPT !.alo = IF st.xalo # None THEN Max2(Val(st.xalo), @) ELSE @,
                    !.ahi = IF st.xahi # None THEN Min2(Val(st.xahi), @) ELSE @]
    ELSE [st EXCEPT !.alo = IF st.xalo # None THEN Min2(Val(st.xalo), @) ELSE @,
                    !.ahi = IF st.xahi # None THEN Max2(Val(st.xahi), @) ELSE @]

\* one pass of the loop over the conditions (_cp, _age and yield operands)
CompileCond(st, c, oper) ==
    IF st.err # "" THEN st
    ELSE IF c.lhs = "_cp" THEN
        IF ~(c.rhs <= horizon) THEN [st EXCEPT !.err = "AssertionError"]
        ELSE IF oper = "or" THEN [st EXCEPT !.err = "AssertionError"]
        ELSE IF c.rel \notin { "=", ">=" } THEN [st EXCEPT !.err = "NameError"]
        ELSE LET s1 == [st EXCEPT !.xplo = Some(c.rhs),
                                  !.xphi = IF c.rel = "=" THEN Some(c.rhs) ELSE @]
                 s2 == [s1 EXCEPT !.plo = PyMax(s1.xplo, @), !.phi = PyMin(s1.xphi, @)]
             IN MergeAges(s2, oper)
    ELSE IF c.rel \notin { "=", ">=", "<=" } THEN [st EXCEPT !.err = "ValueError"]
    ELSE IF c.lhs # "_age" /\ c.lhs \notin DOMAIN YieldCurves
    THEN [st EXCEPT !.err = "AttributeError"]
    ELSE LET s1 == [st EXCEPT !.xalo = IF c.rel \in { "=", ">=" } THEN Some(AgeBound(c)) ELSE @,
                              !.xahi = IF c.rel \in { "=", "<=" } THEN Some(AgeBound(c)) ELSE @]
         IN MergeAges(s1, oper)

RECURSIVE CompileConds(_, _, _, _)
CompileConds(st, conds, i, oper) ==
    IF i > Len(conds) THEN st
    ELSE CompileConds(CompileCond(st, conds[i], oper), conds, i + 1, oper)

\* _compile_oper_expr: the windows it stores in operability[acode]
CompileOperExpr(windows, expr) ==
    IF SplitFails(expr) THEN [windows |-> windows, err |-> "ValueError"]
    ELSE
    Let(CompileConds(CompileStart(OperOf(expr)), expr.conds, 1, OperOf(expr)), LAMBDA st :
        IF st.err # "" THEN [windows |-> windows, err |-> st.err]
        ELSE IF PyGT(st.plo, st.phi) THEN [windows |-> windows, err |-> "AssertionError"]
        ELSE [windows |->
                Dict([p \in (DOMAIN windows) \cup (Val(st.plo)..Val(st.phi)) |->
                    IF p \in Val(st.plo)..Val(st.phi)
                    THEN (IF st.alo <= st.ahi THEN << st.alo, st.ahi >> ELSE None)
                    ELSE windows[p]]),
              err |-> ""])

RECURSIVE CompileExprs(_, _, _)
CompileExprs(r, exprs, i) ==
    IF i > Len(exprs) \/ r.err # "" THEN r
    ELSE CompileExprs(CompileOperExpr(r.windows, exprs[i]), exprs, i + 1)

\* DevelopmentType.compile_action
CompileAction(dt, acode) ==
    Let(CompileExprs([windows |-> EmptyDict, err |-> ""],
                     Get(dt.oper_expr, acode, << >>), 1), LAMBDA r :
        LET is_operable == \E p \in DOMAIN r.windows : r.windows[p] # None
        IN IF r.err # ""
           THEN [dt |-> [dt EXCEPT !.operability = Put(@, acode, r.windows)], err |-> r.err]
           ELSE IF is_operable
           THEN [dt |-> [dt EXCEPT !.operability = Put(@, acode, r.windows)], err |-> ""]
           ELSE [dt |-> [dt EXCEPT !.operability = Del(@, acode)], err |-> ""])

\* "if acode not in self.operability: self.compile_action(acode)"
CompileIfNeeded(dt, acode) ==
    IF acode \notin DOMAIN dt.operability
    THEN CompileAction(dt, acode) ELSE [dt |-> dt, err |-> ""]

\* DevelopmentType.is_operable
IsOperable(dt, acode, period, age) ==
    IF acode \notin DOMAIN dt.oper_expr THEN [dt |-> dt, ret |-> FALSE, err |-> ""]
    ELSE Let(CompileIfNeeded(dt, acode), LAMBDA c :
            IF c.err # "" THEN [dt |-> c.dt, ret |-> FALSE, err |-> c.err]
            ELSE IF acode \notin DOMAIN c.dt.operability
                 THEN [dt |-> c.dt, ret |-> FALSE, err |-> "KeyError"]
            ELSE IF period \notin DOMAIN c.dt.operability[acode]
                 THEN [dt |-> c.dt, ret |-> FALSE, err |-> ""]
            ELSE IF c.dt.operability[acode][period] = None
                 THEN [dt |-> c.dt, ret |-> FALSE, err |-> "TypeError"]
            ELSE [dt |-> c.dt,
                  ret |-> /\ age >= c.dt.operability[acode][period][1]
                          /\ age <= c.dt.operability[acode][period][2],
                  err |-> ""])

\* DevelopmentType.operable_area for one age
OperableArea(dt, acode, period, age, cleanup) ==
    IF acode \notin DOMAIN dt.oper_expr THEN [dt |-> dt, ret |-> 0, err |-> ""]
    ELSE Let(CompileIfNeeded(dt, acode), LAMBDA c :
            IF c.err # "" THEN [dt |-> c.dt, ret |-> 0, err |-> c.err]
            ELSE IF period \notin DOMAIN c.dt.areas
                 THEN [dt |-> c.dt, ret |-> 0, err |-> "KeyError"]
            ELSE IF age \notin DOMAIN c.dt.areas[period]
                 THEN [dt |-> c.dt, ret |-> 0, err |-> ""]
            ELSE IF Abs(c.dt.areas[period][age]) < AreaEpsilon
                 THEN [dt |-> IF cleanup THEN [c.dt EXCEPT !.areas[period] = Del(@, age)]
                              ELSE c.dt,
                       ret |-> 0, err |-> ""]
            ELSE Let(IsOperable(c.dt, acode, period, age), LAMBDA o :
                    [dt |-> o.dt,
                     ret |-> IF o.err = "" /\ o.ret THEN o.dt.areas[period][age] ELSE 0,
                     err |-> o.err]))


\* ---------------------------------------------------------- apply_action
\* destination key: the source key overlaid with the target mask
RECURSIVE OverlayFrom(_, _, _)
OverlayFrom(dtype_key, tmask, i) ==
    IF i > Len(dtype_key) THEN << >>
    ELSE << IF tmask[i] = "?" THEN dtype_key[i] ELSE tmask[i] >>
         \o OverlayFrom(dtype_key, tmask, i + 1)

OverlayMask(dtype_key, tmask) == OverlayFrom(dtype_key, tmask, 1)

\* mutant: the action's own target age is used when the target has none
ResolveTargetAge_ActionDefault(tage, action_targetage, age) ==
    IF tage # None THEN Val(tage)
    ELSE IF action_targetage # None THEN Val(action_targetage)
    ELSE 0

\* destination age of one target
ResolveTargetAge(tage, action_targetage, age) ==
    IF tage # None THEN Val(tage)
    ELSE IF action_targetage = None THEN age
    ELSE 0

\* mutant: the proportion is dropped, every target receives the whole area
TargetArea_Whole(area, tprop) == area

\* area routed to one target: area*tprop
TargetArea(area, tprop) == (area * tprop) \div Percent

\* mutant: the source bucket keeps its area
DecrementSource_Kept(dt, period, age, area) == dt

\* the source bucket gives up the area
DecrementSource(dt, period, age, area) == AreaWrite(dt, period, age, 0 - area, TRUE)

\* mutant: the ledger cell is overwritten instead of incremented
RecordApplied_Overwrite(aa, period, acode, dtype_key, age, area) ==
    [aa EXCEPT ![period] = Put(@, << acode, dtype_key, age >>, area)]

\* the applied-action ledger gains the area
RecordApplied(aa, period, acode, dtype_key, age, area) ==
    [aa EXCEPT ![period] =
        Put(@, << acode, dtype_key, age >>, Get(@, << acode, dtype_key, age >>, 0) + area)]

\* one pass of the loop over the targets: the destination type is created when
\* it is new, and its bucket (period, targetage) gains area*tprop
ApplyTarget(r, dtk, targetage, moved, period) ==
    [dtypes |-> [(IF dtk \in DOMAIN r.dtypes THEN r.dtypes
                  ELSE Put(r.dtypes, dtk, CreateDType(dtk)))
                    EXCEPT ![dtk] = AreaWrite(@, period, targetage, moved, TRUE)],
     routed |-> Append(r.routed, [dtk |-> dtk, age |-> targetage, area |-> moved]),
     err |-> ""]

\* the loop over the targets of (acode, age), from target i on
RECURSIVE ApplyTargets(_, _, _, _, _, _, _, _)
ApplyTargets(r, targets, i, dtype_key, acode, period, age, area) ==
    IF i > Len(targets) \/ r.err # "" THEN r
    ELSE IF targets[i].tappend # None
         THEN [r EXCEPT !.err = "AssertionError"]
         ELSE ApplyTargets(
                ApplyTarget(r, OverlayMask(dtype_key, targets[i].tmask),
                            ResolveTargetAge(targets[i].tage, actions[acode].targetage, age),
                            TargetArea(area, targets[i].tprop), period),
                targets, i + 1, dtype_key, acode, period, age, area)

\* what a call leaves: the registry, the ledger, how it ended, and per target
\* processed the destination (key, age) and the area written to it
Outcome(dts, aa, result, routed) ==
    [dtypes |-> dts, applied_actions |-> aa, result |-> result, routed |-> routed]

\* mutant: the area precondition is not checked
AssertArea_Skipped(available, area) == TRUE

\* mutant: the area asked for may exceed the bucket by one unit
AssertArea_Loose(available, area) == available + AreaEpsilon >= area

\* assert dt.area(period, age) >= area
AssertArea(available, area) == available >= area

\* assert area > 0
AssertPositive(area) == area > 0

\* WoodstockModel.apply_action
apply_action(dts, aa, dtype_key, acode, period, age, area) ==
    IF dtype_key \notin DOMAIN dts THEN Outcome(dts, aa, "KeyError", << >>)
    ELSE IF acode \notin DOMAIN dts[dtype_key].operability
         THEN Outcome(dts, aa, "AssertionError:operability", << >>)
    ELSE Let(AreaRead(dts[dtype_key], period, age), LAMBDA rd :
         Let([dts EXCEPT ![dtype_key] = rd.dt], LAMBDA dts1 :
            IF ~AssertArea(rd.val, area) THEN Outcome(dts1, aa, "AssertionError:area", << >>)
            ELSE IF ~AssertPositive(area) THEN Outcome(dts1, aa, "AssertionError:positive", << >>)
            ELSE Let(IsOperable(rd.dt, acode, period, age), LAMBDA op :
                    IF op.err # "" THEN Outcome(dts1, aa, op.err, << >>)
                    ELSE IF ~op.ret THEN Outcome(dts1, aa, "returned:inoperable", << >>)
                    ELSE IF << acode, age >> \notin DOMAIN rd.dt.transitions
                    THEN Outcome([dts1 EXCEPT ![dtype_key] =
                                     DecrementSource(@, period, age, area)],
                                 aa, "KeyError", << >>)
                    ELSE Let(ApplyTargets(
                               [dtypes |-> [dts1 EXCEPT ![dtype_key] =
                                               DecrementSource(@, period, age, area)],
                                routed |-> << >>, err |-> ""],
                               rd.dt.transitions[<< acode, age >>], 1,
                               dtype_key, acode, period, age, area), LAMBDA r :
                            IF r.err # ""
                            THEN Outcome(r.dtypes, aa, r.err, r.routed)
                            ELSE Outcome(r.dtypes,
                                         RecordApplied(aa, period, acode, dtype_key, age, area),
                                         "applied", r.routed)))))

\* ------------------------------------------------------------------ state
NoCall == [op |-> "none", result |-> "", dtk |-> << >>, acode |-> "",
           period |-> 0, age |-> 0, area |-> 0, routed |-> << >>]

Call(op, result) == [NoCall EXCEPT !.op = op, !.result = result]

IsError(result) == result \notin { "", "applied", "returned:inoperable", "returned" }

\* ------------------------------------------------------------- fractions
\* a float of the program, held exactly: numerator over a positive denominator
RECURSIVE Gcd(_, _)
Gcd(a, b) == IF b = 0 THEN a ELSE Gcd(b, a % b)

Frac(n, d) ==
    IF n = 0 THEN << 0, 1 >>
    ELSE IF d > 0 THEN << n \div Gcd(Abs(n), d), d \div Gcd(Abs(n), d) >>
    ELSE << (0 - n) \div Gcd(Abs(n), 0 - d), (0 - d) \div Gcd(Abs(n), 0 - d) >>

Whole(n) == << n, 1 >>
FAdd(a, b) == Frac(a[1] * b[2] + b[1] * a[2], a[2] * b[2])
FSub(a, b) == Frac(a[1] * b[2] - b[1] * a[2], a[2] * b[2])
FMul(a, b) == Frac(a[1] * b[1], a[2] * b[2])
FDiv(a, b) == Frac(a[1] * b[2], a[2] * b[1])
FAbs(a) == << Abs(a[1]), a[2] >>
FLess(a, b) == a[1] * b[2] < b[1] * a[2]

\* ---------------------------------------------------------- interpolator
\* Python's seq[i] for i >= -1, on a sequence that has the element
PyAt(seq, i) == IF i < 0 THEN seq[Len(seq) + 1 + i] ELSE seq[i + 1]

\* bisect_left(a, v) on an ascending list of whole numbers
BisectLeft(a, v) == Cardinality({ j \in 1..Len(a) : a[j] < v })

\* Interpolator(points): x, y, n and the slope of every segment
Interpolator(points) ==
    [x |-> Dict([j \in 1..Len(points) |-> points[j][1]]),
     y |-> Dict([j \in 1..Len(points) |-> points[j][2]]),
     n |-> Len(points),
     m |-> Dict([j \in 1..(Len(points) - 1) |->
                  FDiv(FSub(points[j + 1][2], points[j][2]),
                       Whole(points[j + 1][1] - points[j][1]))])]

\* Interpolator.points
InterpPoints(it) == Dict([j \in 1..it.n |-> << it.x[j], it.y[j] >>])

\* the index __call__ computes for x: bisect_left(self.x, x) - 1
SegmentOf(it, x) == BisectLeft(it.x, x) - 1

\* Interpolator.__call__(x) for a whole x: the value, or the exception
InterpCall(it, x) ==
    IF x = 0 THEN [ret |-> it.y[1], err |-> ""]
    ELSE Let(SegmentOf(it, x), LAMBDA i :
            IF i >= it.n - 1 \/ it.n = 1
            THEN [ret |-> Whole(0), err |-> "IndexError"]
            ELSE [ret |-> FAdd(PyAt(it.y, i),
                               FMul(PyAt(it.m, i), Whole(x - PyAt(it.x, i)))),
                  err |-> ""])

\* ----------------------------------------------------------------- curves
\* a Curve object: the points of its interpolator and the attributes the
\* registry and the simplification read
CurveObject(is_special, max_x, epsilon) ==
    [points |-> << >>, is_locked |-> FALSE, is_special |-> is_special,
     max_x |-> max_x, epsilon |-> epsilon]

\* sum(self): the curve sampled at 0..max_x, or the exception of a sample
RECURSIVE SumSamples(_, _, _, _)
SumSamples(it, x, max_x, acc) ==
    IF x > max_x THEN [ret |-> acc, err |-> ""]
    ELSE Let(InterpCall(it, x), LAMBDA v :
            IF v.err # "" THEN [ret |-> acc, err |-> v.err]
            ELSE SumSamples(it, x + 1, max_x, FAdd(acc, v.ret)))

SumCurve(points, max_x) == SumSamples(Interpolator(points), 0, max_x, Whole(0))

\* the slope between two points
Slope(p, q) == FDiv(FSub(q[2], p[2]), Whole(q[1] - p[1]))

\* _simplify's test on interior point i of p (counted from 1): the slopes
\* of the two segments that meet in it differ by less than e
Redundant(e, p, i) ==
    FLess(FAbs(FSub(Slope(p[i], p[i + 1]), Slope(p[i - 1], p[i]))), e)

\* Curve._simplify(e, points): the points left
SimplifyPass(e, points) ==
    SelectSeq(Dict([j \in 1..Len(points) |-> << j, points[j] >>]),
              LAMBDA jp : jp[1] = 1 \/ jp[1] = Len(points) \/ ~Redundant(e, points, jp[1]))

Unnumbered(jps) == Dict([j \in 1..Len(jps) |-> jps[j][2]])

\* estep of Curve.simplify, 0.05, and its max_iters
EStep == << 1, 20 >>
MaxIters == 500

\* mutant: the loop of simplify goes on whatever the error
WithinEpsilon_Any(error, epsilon) == TRUE

\* "error < self.epsilon" of the loop of simplify
WithinEpsilon(error, epsilon) == FLess(error, epsilon)

\* the loop of Curve.simplify: st holds e, error, sentinel, _points (p1),
\* __points (p2), ___points (p3); the points the curve is left with
RECURSIVE SimplifyLoop(_, _, _, _, _)
SimplifyLoop(st, points, ysum, max_x, epsilon) ==
    IF ~(WithinEpsilon(st.error, epsilon) /\ st.sentinel < MaxIters /\ Len(st.p1) > 2)
    THEN [points |-> st.p3, err |-> IF st.p3 = None THEN "UnboundLocalError" ELSE ""]
    ELSE Let(Unnumbered(SimplifyPass(st.e, st.p1)), LAMBDA np :
            IF FLess(ysum, epsilon) THEN [points |-> points, err |-> ""]
            ELSE Let(SumCurve(np, max_x), LAMBDA sm :
                    IF sm.err # "" THEN [points |-> np, err |-> sm.err]
                    ELSE SimplifyLoop(
                           [e |-> FAdd(st.e, EStep),
                            error |-> FDiv(FAbs(FSub(sm.ret, ysum)), ysum),
                            sentinel |-> st.sentinel + 1,
                            p1 |-> np, p2 |-> np, p3 |-> st.p2],
                           points, ysum, max_x, epsilon)))

\* Curve.simplify(points): the curve it leaves and the exception, if any
Simplify(c, points) ==
    IF c.is_special THEN [c |-> c, err |-> ""]
    ELSE IF c.is_locked THEN [c |-> c, err |-> "AssertionError"]
    ELSE IF Len(points) <= 2 THEN [c |-> c, err |-> ""]
    ELSE Let(SumCurve(c.points, c.max_x), LAMBDA ysum :
            IF ysum.err # "" THEN [c |-> c, err |-> ysum.err]
            ELSE Let(SimplifyLoop([e |-> Whole(0), error |-> Whole(0), sentinel |-> 0,
                                   p1 |-> points, p2 |-> points, p3 |-> None],
                                  points, ysum.ret, c.max_x, c.epsilon), LAMBDA r :
                    [c |-> [c EXCEPT !.points = r.points], err |-> r.err]))

\* the padding of add_points: the curve starts at x = 0 and runs to max_x
PadFront(points) ==
    IF points[1][1] > 0
    THEN << << 0, Whole(0) >> >>
         \o (IF points[1][1] > 1 THEN << << points[1][1] - 1, Whole(0) >> >> ELSE << >>)
         \o points
    ELSE points

PadBack(points, max_x) ==
    IF points[Len(points)][1] < max_x
    THEN Append(points, << max_x, points[Len(points)][2] >>)
    ELSE points

\* mutant: add_points without the assertion on the lock
AddPoints_Unlocked(c, points, simplify) ==
    Let(PadBack(PadFront(points), c.max_x), LAMBDA padded :
        IF simplify /\ ~c.is_locked THEN Simplify([c EXCEPT !.points = padded], padded)
        ELSE [c |-> [c EXCEPT !.points = padded], err |-> ""])

\* Curve.add_points(points, simplify)
AddPoints(c, points, simplify) ==
    IF c.is_locked THEN [c |-> c, err |-> "AssertionError"]
    ELSE Let(PadBack(PadFront(points), c.max_x), LAMBDA padded :
            IF simplify THEN Simplify([c EXCEPT !.points = padded], padded)
            ELSE [c |-> [c EXCEPT !.points = padded], err |-> ""])

\* core.Curve(points=..., is_special=..., max_x=..., epsilon=...)
NewCurve(points, is_special, max_x, epsilon, simplify) ==
    AddPoints(CurveObject(is_special, max_x, epsilon),
              IF points = << >> THEN << << 0, Whole(0) >> >> ELSE points, simplify).c

\* mutant: register_curve stores and returns every curve it is given
RegisterCurve_Replacing(reg, hp, id) ==
    [curves |-> Put(reg, hp[id].points, id),
     heap |-> [hp EXCEPT ![id].is_locked = TRUE],
     ret |-> id]

\* WoodstockModel.register_curve(curve) on the registry reg and the objects
\* hp, the curve being object id: the registry, the objects and the object
\* returned
RegisterCurve(reg, hp, id) ==
    IF hp[id].points \notin DOMAIN reg
    THEN [curves |-> Put(reg, hp[id].points, id),
          heap |-> [hp EXCEPT ![id].is_locked = TRUE],
          ret |-> id]
    ELSE [curves |-> reg, heap |-> hp, ret |-> reg[hp[id].points]]

\* the loader: areas section, then actions and transitions sections
RECURSIVE LoadInventory(_, _, _)
LoadInventory(dts, inv, i) ==
    IF i > Len(inv) THEN dts
    ELSE LET k == inv[i].key
             d0 == IF k \in DOMAIN dts THEN dts ELSE Put(dts, k, [key |-> k, areas |-> NewAreas])
         IN LoadInventory([d0 EXCEPT ![k].areas[0] = Put(@, inv[i].age, Get(@, inv[i].age, 0) + inv[i].area)],
                          inv, i + 1)

\* the area selector between two calls of operate: no activation
SelectorIdle == [pc |-> "idle"]

\* the epsilon of a curve built without one; common.CURVE_EPSILON_DEFAULT is
\* not among the sources
DefaultEpsilon == << 1, 100 >>

\* register_curve for the objects ids[i..] of hp, one after the other
RECURSIVE RegisterAll(_, _, _)
RegisterAll(r, ids, i) ==
    IF i > Len(ids) THEN r
    ELSE RegisterAll(RegisterCurve(r.curves, r.heap, ids[i]), ids, i + 1)

\* the curves of WoodstockModel.__init__: 'zero', 'unit' and 'ages', special
\* and registered; their domain is taken to end at the model's max_age
CommonCurves(max_x) ==
    << NewCurve(<< >>, TRUE, max_x, DefaultEpsilon, TRUE),
       NewCurve(<< << 0, Whole(1) >> >>, TRUE, max_x, DefaultEpsilon, TRUE),
       NewCurve(<< << 0, Whole(0) >>, << max_x, Whole(max_x) >> >>, TRUE, max_x,
                DefaultEpsilon, TRUE) >>

\* the registry and the objects after __init__, with further Curve objects
\* built and not registered
LoadCurves(max_x, objects) ==
    Let(RegisterAll([curves |-> EmptyDict, heap |-> CommonCurves(max_x), ret |-> 0],
                    << 1, 2, 3 >>, 1), LAMBDA r :
        /\ curves = r.curves
        /\ heap = r.heap \o objects)

\* -------------------------------------------------------------- outputs
\* The outputs section: ocode and expression, in file order. An expression
\* is the list of its terms "lval [*|/ rval]": the sign in front of the term
\* (none in front of the first), the left operand, the operator and the
\* number. A left operand is an ocode, or the basic expression
\* "<mask> [@AGE(lo..hi)] _INVENT _AREA", written as its mask and age range.
BasicExpr(mask, ages) == [mask |-> mask, ages |-> ages]
OCode(code) == [ocode |-> code]
Term(sign, lval, op, rval) == [sign |-> sign, lval |-> lval, op |-> op, rval |-> rval]

OutputsSection ==
    << [code |-> "oall",
        expression |-> << Term("", BasicExpr(<< "?", "?" >>, None), "", 0) >>],
       [code |-> "oa",
        expression |-> << Term("", BasicExpr(<< "a", "?" >>, None), "", 0) >>],
       [code |-> "oold",
        expression |-> << Term("", BasicExpr(<< "?", "?" >>, << 2, 3 >>), "", 0) >>],
       [code |-> "odiff",
        expression |-> << Term("", OCode("oall"), "", 0), Term("-", OCode("oa"), "", 0) >>],
       [code |-> "osum",
        expression |-> << Term("", OCode("oa"), "", 0), Term("+", OCode("oold"), "", 0) >>],
       [code |-> "oscaled",
        expression |-> << Term("", OCode("oall"), "*", 2), Term("-", OCode("oold"), "/", 2) >>],
       [code |-> "onet",
        expression |-> << Term("", OCode("odiff"), "", 0), Term("-", OCode("oold"), "", 0),
                          Term("+", OCode("oa"), "", 0) >> ] >>

\* the factor of an Output that was given none: (1., 1)
OneFactor == << Whole(1), 1 >>

\* the factor of a term: the number and 1 for "*", -1 for "/"
TermFactor(term) ==
    IF term.op = "" THEN OneFactor
    ELSE << Whole(term.rval), IF term.op = "*" THEN 1 ELSE 0 - 1 >>

\* the sign of a term in Output._compile
SignOf(term) == IF term.sign = "-" THEN 0 - 1 ELSE 1

\* WoodstockModel.unmask(mask) over the development types that exist
Unmask(mask, keys) == { k \in keys : MatchMask(mask, k) }

\* Output._lval: the left operand names a registered output
IsOutput(lval, registry) == "ocode" \in DOMAIN lval /\ lval.ocode \in DOMAIN registry

\* Output._compile_basic for "<mask> [@AGE(lo..hi)] _INVENT _AREA"
CompileBasic(expr, factor, keys, maxage) ==
    [is_basic |-> TRUE, factor |-> factor,
     dtype_keys |-> Unmask(expr.mask, keys),
     ages |-> LET given == IF expr.ages = None THEN { }
                           ELSE expr.ages[1]..Min2(expr.ages[2], maxage)
              IN IF given = { } THEN 0..maxage ELSE given]

\* Output._compile
CompileOutput(expression, registry, keys, maxage) ==
    IF Len(expression) = 1 /\ ~IsOutput(expression[1].lval, registry)
    THEN CompileBasic(expression[1].lval, TermFactor(expression[1]), keys, maxage)
    ELSE [is_basic |-> FALSE, factor |-> OneFactor,
          ocomps |-> Dict([i \in 1..Len(expression) |->
                             IF IsOutput(expression[i].lval, registry)
                             THEN registry[expression[i].lval.ocode]
                             ELSE CompileBasic(expression[i].lval,
                                               TermFactor(expression[i]), keys, maxage)]),
          signs |-> Dict([i \in 1..Len(expression) |-> SignOf(expression[i])]),
          factors |-> Dict([i \in 1..Len(expression) |-> TermFactor(expression[i])])]

\* the outputs of the section, each compiled against those before it
RECURSIVE CompileOutputs(_, _, _, _, _)
CompileOutputs(section, i, registry, keys, maxage) ==
    IF i > Len(section) THEN registry
    ELSE CompileOutputs(section, i + 1,
                        Put(registry, section[i].code,
                            CompileOutput(section[i].expression, registry, keys, maxage)),
                        keys, maxage)

\* pow(*factor)
Pow(factor) == IF factor[2] = 1 THEN factor[1] ELSE FDiv(Whole(1), factor[1])

RECURSIVE ProductOf(_, _)
ProductOf(factors, i) ==
    IF i > Len(factors) THEN Whole(1) ELSE FMul(Pow(factors[i]), ProductOf(factors, i + 1))

\* Output._evaluate_basic of an inventory area output: the value, and the
\* development types after the reads of dt.area
EvaluateBasic(o, period, factors, dts) ==
    Let(FMul(Pow(o.factor), ProductOf(factors, 1)), LAMBDA f :
        IF f = Whole(0) THEN [ret |-> Whole(0), dtypes |-> dts]
        ELSE [ret |-> FMul(Whole(DictSum(Dict([b \in o.dtype_keys \X o.ages |->
                                                  AreaOf(dts[b[1]], period, b[2])]))), f),
              dtypes |-> Dict([k \in DOMAIN dts |->
                                 IF k \in o.dtype_keys /\ period \in DOMAIN dts[k].areas
                                 THEN [dts[k] EXCEPT !.areas[period] =
                                          Dict([a \in DOMAIN @ \cup o.ages |-> Get(@, a, 0)])]
                                 ELSE dts[k]])])

\* Output.__call__ and Output._evaluate_summary, from term i on
RECURSIVE OutputCall(_, _, _, _)
RECURSIVE EvaluateSummary(_, _, _, _, _, _)
EvaluateSummary(o, i, period, factors, result, dts) ==
    IF i > Len(o.ocomps) THEN [ret |-> result, dtypes |-> dts]
    ELSE Let(OutputCall(o.ocomps[i], period, << o.factors[i] >> \o factors, dts), LAMBDA r :
            EvaluateSummary(o, i + 1, period, factors, FAdd(result, r.ret), r.dtypes))

OutputCall(o, period, factors, dts) ==
    IF o.is_basic THEN EvaluateBasic(o, period, factors, dts)
    ELSE EvaluateSummary(o, 1, period, factors, Whole(0), dts)

\* the model built from one scenario
LoadWith(sc, objects) ==
    /\ LoadCurves(sc.max_age, objects)
    /\ horizon = sc.horizon
    /\ max_age = sc.max_age
    /\ actions = sc.actions
    /\ oper_expr = sc.oper_expr
    /\ transitions = sc.transitions
    /\ outputs = CompileOutputs(OutputsSection, 1, EmptyDict,
                                { sc.inventory[i].key : i \in 1..Len(sc.inventory) },
                                sc.max_age)
    /\ dtypes = LET inv == LoadInventory(EmptyDict, sc.inventory, 1)
                IN Dict([k \in DOMAIN inv |-> [CreateDType(k) EXCEPT !.areas = inv[k].areas]])
    /\ applied_actions = Dict([p \in 1..horizon |-> EmptyDict])
    /\ last = NoCall
    /\ ncalls = 0
    /\ halted = FALSE
    /\ selector = SelectorIdle

Load(sc) == LoadWith(sc, << >>)

Init == \E sc \in Scenarios : Load(sc)


\* DevelopmentType.compile_actions: every action of the type, until one fails
RECURSIVE CompileActionsOver(_, _)
CompileActionsOver(r, acodes) ==
    IF acodes = {} \/ r.err # "" THEN r
    ELSE Let(CHOOSE x \in acodes : TRUE, LAMBDA a :
            CompileActionsOver(CompileAction(r.dt, a), acodes \ {a}))

CompileActions(dt) == CompileActionsOver([dt |-> dt, err |-> ""], DOMAIN dt.oper_expr)

\* WoodstockModel.grow: every development type grows
grow(dts, start_period, cascade) ==
    Dict([k \in DOMAIN dts |-> Grow(dts[k], start_period, cascade)])

\* WoodstockModel.initialize_areas: every development type copies period 0
initialize_areas(dts) == Dict([k \in DOMAIN dts |-> InitializeAreas(dts[k])])

\* mutant: the ledger of every period is emptied
reset_actions_Everywhere(aa, period) == Dict([p \in DOMAIN aa |-> EmptyDict])

\* WoodstockModel.reset_actions(period)
reset_actions(aa, period) == [aa EXCEPT ![period] = EmptyDict]

\* ---------------------------------------------------------------- actions
Ages == 0..max_age

\* area*tprop is a whole number for every target of the call
ExactFor(dts, dtype_key, acode, age, area) ==
    << acode, age >> \in DOMAIN dts[dtype_key].transitions =>
        \A i \in 1..Len(dts[dtype_key].transitions[<< acode, age >>]) :
            (area * dts[dtype_key].transitions[<< acode, age >>][i].tprop) % Percent = 0

Exact(dtype_key, acode, age, area) == ExactFor(dtypes, dtype_key, acode, age, area)

\* the caller's side of one call: the ledgers it leaves, what it returned or
\* raised
Step(dts, aa, call) ==
    /\ ~halted
    /\ ncalls < MaxCalls
    /\ dtypes' = dts
    /\ applied_actions' = aa
    /\ last' = call
    /\ ncalls' = IF call.op = "compile_actions" THEN ncalls ELSE ncalls + 1
    /\ halted' = IsError(call.result)
    /\ UNCHANGED << loaded, selector, curvestate >>

\* a call of WoodstockModel.apply_action
CallApplyAction(dtype_key, acode, period, age, area) ==
    /\ Exact(dtype_key, acode, age, area)
    /\ Let(apply_action(dtypes, applied_actions, dtype_key, acode, period, age, area), LAMBDA o :
           Step(o.dtypes, o.applied_actions,
                [op |-> "apply_action", result |-> o.result, dtk |-> dtype_key,
                 acode |-> acode, period |-> period, age |-> age, area |-> area,
                 routed |-> o.routed]))

\* a call of DevelopmentType.compile_actions
CallCompileActions(dtype_key) ==
    Let(CompileActions(dtypes[dtype_key]), LAMBDA o :
        Step([dtypes EXCEPT ![dtype_key] = o.dt], applied_actions,
             Call("compile_actions", o.err)))

\* a call of WoodstockModel.initialize_areas
CallInitializeAreas ==
    /\ ~halted
    /\ dtypes' = initialize_areas(dtypes)
    /\ last' = NoCall
    /\ UNCHANGED << loaded, applied_actions, ncalls, halted, selector, curvestate >>

\* a call of DevelopmentType.grow(start_period, cascade)
CallDTypeGrow(dtype_key, start_period, cascade) ==
    Step([dtypes EXCEPT ![dtype_key] = Grow(@, start_period, cascade)], applied_actions, NoCall)

\* a call of WoodstockModel.grow(start_period, cascade)
CallGrow(start_period, cascade) ==
    Step(grow(dtypes, start_period, cascade), applied_actions, NoCall)

\* a call of WoodstockModel.reset_actions(period)
CallResetActions(period) ==
    Step(dtypes, reset_actions(applied_actions, period), NoCall)

\* the areas asked of a bucket: nothing, every part of it and one unit too
\* many when it holds area; one unit when it is empty
ApplyAreas(dt, period, age) ==
    IF AreaOf(dt, period, age) > 0 THEN 0..(AreaOf(dt, period, age) + 1) ELSE {1}

Next ==
    \/ \E k \in DOMAIN dtypes, a \in DOMAIN actions, p \in 1..horizon, x \in Ages :
          \E area \in ApplyAreas(dtypes[k], p, x) :
              CallApplyAction(k, a, p, x, area)
    \/ \E k \in DOMAIN dtypes : CallCompileActions(k)
    \/ CallInitializeAreas
    \/ \E k \in DOMAIN dtypes, p \in 0..(horizon - 1) : CallDTypeGrow(k, p, FALSE)
    \/ \E p \in 0..(horizon - 1), c \in BOOLEAN : CallGrow(p, c)
    \/ \E p \in 1..horizon : CallResetActions(p)

Spec == Init /\ [][Next]_vars

\* ------------------------------------------- selector, repair and commit
\* the model while one outer call runs: registry, ledger, the growth steps and
\* apply_action calls made so far, what repair_actions replayed and asked of
\* the selector, the exception raised, and whether every area*tprop so far
\* was a whole number
Machine(dts, aa) ==
    [dtypes |-> dts, applied_actions |-> aa, events |-> << >>, trace |-> << >>,
     err |-> "", exact |-> TRUE]

\* a nested call of apply_action
ApplyIn(m, dtype_key, acode, period, age, area) ==
    Let(apply_action(m.dtypes, m.applied_actions, dtype_key, acode, period, age, area), LAMBDA o :
        [dtypes |-> o.dtypes,
         applied_actions |-> o.applied_actions,
         events |-> Append(m.events, << "apply_action", period >>),
         trace |-> m.trace,
         err |-> IF IsError(o.result) THEN o.result ELSE "",
         exact |-> m.exact /\ ExactFor(m.dtypes, dtype_key, acode, age, area)])

\* DevelopmentType.operable_ages
OperableAges(dt, acode, period) ==
    IF acode \notin DOMAIN dt.oper_expr THEN [dt |-> dt, ret |-> {}, err |-> ""]
    ELSE Let(CompileIfNeeded(dt, acode), LAMBDA c :
            IF c.err # "" THEN [dt |-> c.dt, ret |-> {}, err |-> c.err]
            ELSE IF acode \notin DOMAIN c.dt.operability
                 THEN [dt |-> c.dt, ret |-> {}, err |-> "KeyError"]
            ELSE IF period \notin DOMAIN c.dt.operability[acode]
                 THEN [dt |-> c.dt, ret |-> {}, err |-> ""]
            ELSE IF c.dt.operability[acode][period] = None
                 THEN [dt |-> c.dt, ret |-> {}, err |-> "TypeError"]
            ELSE IF period \notin DOMAIN c.dt.areas
                 THEN [dt |-> c.dt, ret |-> {}, err |-> "KeyError"]
            ELSE [dt |-> c.dt,
                  ret |-> (c.dt.operability[acode][period][1]
                             .. c.dt.operability[acode][period][2])
                          \cap DOMAIN c.dt.areas[period],
                  err |-> ""])

\* the loop of operable_dtypes over the registry; the result does not depend
\* on the order of the keys unless operable_ages raises
RECURSIVE OperableDTypesOver(_, _, _, _)
OperableDTypesOver(r, keys, acode, period) ==
    IF keys = {} \/ r.err # "" THEN r
    ELSE Let(CHOOSE x \in keys : TRUE, LAMBDA k :
         Let(OperableAges(r.dtypes[k], acode, period), LAMBDA o :
            OperableDTypesOver(
              [dtypes |-> [r.dtypes EXCEPT ![k] = o.dt],
               ret |-> IF o.err = "" /\ o.ret # {} THEN Put(r.ret, k, o.ret) ELSE r.ret,
               err |-> o.err],
              keys \ {k}, acode, period)))

\* WoodstockModel.operable_dtypes (no mask)
operable_dtypes(dts, acode, period) ==
    OperableDTypesOver([dtypes |-> dts, ret |-> EmptyDict, err |-> ""],
                       DOMAIN dts, acode, period)

\* mutant: the outer loop goes on while quota is left, operable or not
OuterCondition_QuotaOnly(target_area, odt) == target_area > 0

\* GreedyAreaSelector.operate, the conditions of its two loops
OuterCondition(target_area, odt) == target_area > 0 /\ DOMAIN odt # {}
InnerCondition(target_area, odt) == target_area > 0 /\ DOMAIN odt # {}

\* mutant: the whole operable area of the bucket is taken
SelectArea_Whole(oa, target_area) == oa

\* area = min(oa, target_area)
SelectArea(oa, target_area) == Min2(oa, target_area)

\* GreedyAreaSelector.operate, one pass of the inner loop.  odt.pop() takes a
\* type whose oldest operable age (as ranked before the loop began) is
\* largest; among equals the sort keeps the dictionary's order, so any of them
\* may come first.  The result is the set of possible outcomes: the model, the
\* rest of the list, the quota left and the application made, if any.
Pop(m, odt, period, acode, target_area) ==
    Let(SetMax({ SetMax(odt[k]) : k \in DOMAIN odt }), LAMBDA age :
        { Let(OperableArea(m.dtypes[dtk], acode, period, age, TRUE), LAMBDA o :
          Let([m EXCEPT !.dtypes[dtk] = o.dt, !.err = o.err], LAMBDA m1 :
             IF o.err # "" \/ o.ret = 0
             THEN [m |-> m1, odt |-> Del(odt, dtk), target_area |-> target_area,
                   applied |-> << >>]
             ELSE [m |-> ApplyIn(m1, dtk, acode, period, age, SelectArea(o.ret, target_area)),
                   odt |-> Del(odt, dtk),
                   target_area |-> target_area - SelectArea(o.ret, target_area),
                   applied |-> << [dtk |-> dtk, age |-> age,
                                   area |-> SelectArea(o.ret, target_area)] >>]))
          : dtk \in { k \in DOMAIN odt : SetMax(odt[k]) = age } })

\* GreedyAreaSelector.operate as one call: the set of its possible outcomes
RECURSIVE OperateInner(_, _, _, _, _)
RECURSIVE OperateOuter(_, _, _, _)
OperateInner(m, odt, period, acode, target_area) ==
    IF m.err # "" THEN {m}
    ELSE IF ~InnerCondition(target_area, odt)
    THEN OperateOuter(m, period, acode, target_area)
    ELSE UNION { OperateInner(s.m, s.odt, period, acode, s.target_area)
                 : s \in Pop(m, odt, period, acode, target_area) }

OperateOuter(m, period, acode, target_area) ==
    IF m.err # "" THEN {m}
    ELSE Let(operable_dtypes(m.dtypes, acode, period), LAMBDA od :
         Let([m EXCEPT !.dtypes = od.dtypes, !.err = od.err], LAMBDA m1 :
            IF od.err = "" /\ OuterCondition(target_area, od.ret)
            THEN OperateInner(m1, od.ret, period, acode, target_area)
            ELSE {m1}))

operate(m, period, acode, target_area) == OperateOuter(m, period, acode, target_area)

\* what repair_actions did with one recorded cell: the area recorded, the
\* operable area it found and the area it applied again (0: cell skipped)
Replayed(m, acode, dtype_key, age, aaa, oa, applied_area) ==
    [m EXCEPT !.trace = Append(@, [op |-> "replay", acode |-> acode, dtk |-> dtype_key,
                                   age |-> age, recorded |-> aaa, operable |-> oa,
                                   area |-> applied_area])]

\* mutant: the selector is asked for the whole recorded area
RepairTarget_Whole(old_area, new_area) == old_area

\* target_area = old_area - new_area
RepairTarget(old_area, new_area) == old_area - new_area

\* the call of the area selector that ends the repair of one action
Selected(m, acode, target_area) ==
    [m EXCEPT !.trace = Append(@, [op |-> "operate", acode |-> acode,
                                   target |-> target_area])]

\* repair_actions, innermost loop: the ages of aa[acode][dtype_key], in any order
RECURSIVE RepairAges(_, _, _, _, _, _)
RepairAges(r, aa, acode, dtype_key, ages, period) ==
    IF ages = {} \/ r.m.err # "" THEN {r}
    ELSE UNION {
           Let(aa[<< acode, dtype_key, age >>], LAMBDA aaa :
           Let(OperableArea(r.m.dtypes[dtype_key], acode, period, age, TRUE), LAMBDA o :
           Let([r.m EXCEPT !.dtypes[dtype_key] = o.dt, !.err = o.err], LAMBDA m1 :
              IF o.err # "" \/ o.ret = 0
              THEN RepairAges([r EXCEPT !.m = Replayed(m1, acode, dtype_key, age, aaa, o.ret, 0),
                                        !.old_area = r.old_area + aaa],
                              aa, acode, dtype_key, ages \ {age}, period)
              ELSE RepairAges([m |-> ApplyIn(Replayed(m1, acode, dtype_key, age, aaa, o.ret,
                                                      Min2(aaa, o.ret)),
                                             dtype_key, acode, period, age, Min2(aaa, o.ret)),
                               old_area |-> r.old_area + aaa,
                               new_area |-> r.new_area + Min2(aaa, o.ret)],
                              aa, acode, dtype_key, ages \ {age}, period))))
           : age \in ages }

\* repair_actions, middle loop: the development types of aa[acode], in any order
RECURSIVE RepairKeys(_, _, _, _, _)
RepairKeys(r, aa, acode, keys, period) ==
    IF keys = {} \/ r.m.err # "" THEN {r}
    ELSE UNION { UNION { RepairKeys(r1, aa, acode, keys \ {k}, period)
                         : r1 \in RepairAges(r, aa, acode, k,
                                             { c[3] : c \in { d \in DOMAIN aa :
                                                 d[1] = acode /\ d[2] = k } },
                                             period) }
                 : k \in keys }

\* repair_actions, outer loop: the action codes of aa, in any order; what the
\* replay could not place goes to the area selector
RECURSIVE RepairCodes(_, _, _, _)
RepairCodes(m, aa, acodes, period) ==
    IF acodes = {} \/ m.err # "" THEN {m}
    ELSE UNION { UNION { UNION { RepairCodes(m2, aa, acodes \ {a}, period)
                                 : m2 \in operate(Selected(r.m, a, RepairTarget(r.old_area, r.new_area)),
                                                  period, a,
                                                  RepairTarget(r.old_area, r.new_area)) }
                         : r \in RepairKeys([m |-> m, old_area |-> 0, new_area |-> 0], aa, a,
                                            { c[2] : c \in { d \in DOMAIN aa : d[1] = a } },
                                            period) }
                 : a \in acodes }

\* WoodstockModel.repair_actions(period)
repair_actions(m, period) ==
    Let(m.applied_actions[period], LAMBDA aa :
        RepairCodes([m EXCEPT !.applied_actions = reset_actions(m.applied_actions, period)],
                    aa, { c[1] : c \in DOMAIN aa }, period))

\* mutant: the ledger of period+1 is repaired or reset before period is grown
CommitPeriod_RepairsBeforeGrowing(m, period, repair_future_actions) ==
    LET grown(r) == [r EXCEPT !.dtypes = grow(r.dtypes, period, FALSE),
                              !.events = Append(r.events, << "grow", period >>)]
    IN IF repair_future_actions
       THEN { IF r.err # "" THEN r ELSE grown(r) : r \in repair_actions(m, period + 1) }
       ELSE { grown([m EXCEPT !.applied_actions = reset_actions(m.applied_actions, period + 1)]) }

\* one pass of the loop of commit_actions: grow period, then repair or reset
\* the ledger of period+1
CommitPeriod(m, period, repair_future_actions) ==
    Let([m EXCEPT !.dtypes = grow(m.dtypes, period, FALSE),
                  !.events = Append(m.events, << "grow", period >>)], LAMBDA g :
        IF repair_future_actions THEN repair_actions(g, period + 1)
        ELSE { [g EXCEPT !.applied_actions = reset_actions(g.applied_actions, period + 1)] })

RECURSIVE CommitFrom(_, _, _)
CommitFrom(m, period, repair_future_actions) ==
    IF m.err # "" \/ ~(period < horizon) THEN {m}
    ELSE UNION { CommitFrom(m1, period + 1, repair_future_actions)
                 : m1 \in CommitPeriod(m, period, repair_future_actions) }

\* WoodstockModel.commit_actions(period, repair_future_actions)
commit_actions(dts, aa, period, repair_future_actions) ==
    CommitFrom(Machine(dts, aa), period, repair_future_actions)

\* a call of WoodstockModel.commit_actions; it closes the planning run
CallCommitActions(period, repair_future_actions) ==
    /\ ~halted
    /\ ncalls < MaxCalls
    /\ \E m \in commit_actions(dtypes, applied_actions, period, repair_future_actions) :
          /\ m.exact
          /\ dtypes' = m.dtypes
          /\ applied_actions' = m.applied_actions
          /\ last' = [op |-> "commit_actions",
                      result |-> IF m.err # "" THEN m.err ELSE "returned",
                      period |-> period, repair |-> repair_future_actions,
                      events |-> m.events]
    /\ ncalls' = ncalls + 1
    /\ halted' = TRUE
    /\ UNCHANGED << loaded, selector, curvestate >>

\* a call of WoodstockModel.repair_actions(period)
CallRepairActions(period) ==
    \E m \in repair_actions(Machine(dtypes, applied_actions), period) :
        /\ m.exact
        /\ Step(m.dtypes, m.applied_actions,
                [op |-> "repair_actions",
                 result |-> IF m.err # "" THEN m.err ELSE "returned",
                 period |-> period, trace |-> m.trace])

NextRepair ==
    \/ Next
    \/ \E p \in 1..horizon : CallRepairActions(p)

SpecRepair == Init /\ [][NextRepair]_vars

NextCommit ==
    \/ Next
    \/ \E p \in 0..(horizon - 1), r \in BOOLEAN : CallCommitActions(p, r)

SpecCommit == Init /\ [][NextCommit]_vars


\* ================================================================ claims
RECURSIVE TotalAreaOver(_, _, _)
TotalAreaOver(dts, keys, period) ==
    IF keys = {} THEN 0
    ELSE LET k == CHOOSE x \in keys : TRUE
         IN PeriodArea(dts[k], period) + TotalAreaOver(dts, keys \ {k}, period)

\* total area of a period over every registered development type
TotalArea(dts, period) == TotalAreaOver(dts, DOMAIN dts, period)

RECURSIVE SumProps(_, _)
SumProps(targets, i) ==
    IF i > Len(targets) THEN 0 ELSE targets[i].tprop + SumProps(targets, i + 1)

RECURSIVE SumRouted(_, _)
SumRouted(routed, i) ==
    IF i > Len(routed) THEN 0 ELSE routed[i].area + SumRouted(routed, i + 1)

AllProportionsSumToOne ==
    \A a \in DOMAIN transitions : \A i \in 1..Len(transitions[a]) :
        SumProps(transitions[a][i].targets, 1) = Percent

\* the last call was an apply_action that went through
Applied == last.op = "apply_action" /\ last.result = "applied"

\* this step is an apply_action call that went through
AppliedStep == last'.op = "apply_action" /\ last'.result = "applied" /\ ncalls' = ncalls + 1

\* this step is an apply_action call, however it ended
ApplyCallStep ==
    /\ last'.op = "apply_action"
    /\ (last' # last \/ ncalls' # ncalls \/ halted' # halted)

\* the targets of the last call
LastTargets == dtypes[last.dtk].transitions[<< last.acode, last.age >>]

\* the ages with a bucket in either of two ledgers of one period
BucketAges(d1, d2, period) ==
    (IF period \in DOMAIN d1.areas THEN DOMAIN d1.areas[period] ELSE {})
        \cup (IF period \in DOMAIN d2.areas THEN DOMAIN d2.areas[period] ELSE {})

\* two ledgers hold the same area in every bucket of a period
SamePeriodAreas(d1, d2, period) ==
    \A x \in BucketAges(d1, d2, period) : AreaOf(d1, period, x) = AreaOf(d2, period, x)

\* C1: with all transition proportions summing to 1, an apply_action that goes
\* through for period p leaves the total area of period p, over every
\* development type (those it creates included), unchanged.
C1_TotalAreaConserved ==
    [][(AppliedStep /\ AllProportionsSumToOne) =>
          TotalArea(dtypes', last'.period) = TotalArea(dtypes, last'.period)]_vars

\* C1 witness: a call went through that created its destination type and
\* moved area into it, in a model whose proportions all sum to 1.
C1_Witness ==
    /\ Applied /\ AllProportionsSumToOne
    /\ \E i \in 1..Len(last.routed) :
          /\ last.routed[i].dtk # last.dtk
          /\ last.routed[i].area > 0
          /\ PeriodArea(dtypes[last.routed[i].dtk], last.period) = last.routed[i].area
          /\ dtypes[last.routed[i].dtk].areas[0] = EmptyDict

\* C2 (as claimed): after an apply_action that went through, the areas added
\* to the destination buckets sum to the area applied.
C2_AddedEqualsArea ==
    Applied => SumRouted(last.routed, 1) = last.area

\* C2 (amended): the areas added to the destination buckets sum to the area
\* applied times the sum of the target proportions (the area itself exactly
\* when the proportions sum to 1).
C2_AddedIsAreaTimesProportions ==
    Applied =>
        /\ SumRouted(last.routed, 1) * Percent = last.area * SumProps(LastTargets, 1)
        /\ (SumProps(LastTargets, 1) = Percent => SumRouted(last.routed, 1) = last.area)

\* C2 witness: a call went through whose targets take less than the whole.
C2_Witness ==
    /\ Applied
    /\ SumProps(LastTargets, 1) < Percent
    /\ SumRouted(last.routed, 1) > 0
    /\ SumRouted(last.routed, 1) < last.area

\* area the last call routed back into its own source bucket
RECURSIVE RoutedBack(_, _, _)
RoutedBack(call, routed, i) ==
    IF i > Len(routed) THEN 0
    ELSE (IF routed[i].dtk = call.dtk /\ routed[i].age = call.age THEN routed[i].area ELSE 0)
         + RoutedBack(call, routed, i + 1)

\* C3 (as claimed): an apply_action that goes through leaves the source bucket
\* exactly `area` smaller, whatever the transition.
C3_SourceDecreasesByArea ==
    [][AppliedStep =>
          AreaOf(dtypes'[last'.dtk], last'.period, last'.age)
            = AreaOf(dtypes[last'.dtk], last'.period, last'.age) - last'.area]_vars

\* C3 (amended): the source bucket ends `area` smaller, less whatever the
\* targets route back into that very bucket (same development type, same
\* age); exactly `area` smaller when no target resolves to it.
C3_SourceDecreasesByAreaLessRoutedBack ==
    [][AppliedStep =>
          AreaOf(dtypes'[last'.dtk], last'.period, last'.age)
            = AreaOf(dtypes[last'.dtk], last'.period, last'.age) - last'.area
              + RoutedBack(last', last'.routed, 1)]_vars

\* C3 witness: a call went through whose target is its own source bucket.
C3_Witness ==
    /\ Applied
    /\ RoutedBack(last, last.routed, 1) = last.area
    /\ AreaOf(dtypes[last.dtk], last.period, last.age) >= last.area

\* the compiled cache of the type says (period, age) is not operable
NotOperable(dt, acode, period, age) ==
    /\ acode \in DOMAIN dt.operability
    /\ \/ period \notin DOMAIN dt.operability[acode]
       \/ /\ dt.operability[acode][period] # None
          /\ ~(age >= dt.operability[acode][period][1] /\ age <= dt.operability[acode][period][2])

\* C4: an apply_action on a (type, action, period, age) that is compiled but
\* not operable ends in an error, it never returns normally.
C4_InoperableIsFatal ==
    (/\ last.op = "apply_action"
     /\ NotOperable(dtypes[last.dtk], last.acode, last.period, last.age))
        => IsError(last.result)

\* every bucket of every development type holds the same area, and no type
\* was added
SameAreas(d1, d2) ==
    /\ DOMAIN d1 = DOMAIN d2
    /\ \A k \in DOMAIN d1 : \A p \in DOMAIN d1[k].areas \cup DOMAIN d2[k].areas :
          SamePeriodAreas(d1[k], d2[k], p)

\* C5: an apply_action with area <= 0, or with more area than its bucket
\* holds, ends in an error; no bucket area and no ledger entry changes.
C5_BadAreaFailsUnchanged ==
    [][(/\ ApplyCallStep
        /\ \/ last'.area <= 0
           \/ last'.area > AreaOf(dtypes[last'.dtk], last'.period, last'.age))
          => /\ IsError(last'.result)
             /\ SameAreas(dtypes, dtypes')
             /\ applied_actions' = applied_actions]_vars

\* C5 witness: a call for an operable bucket asked for more than the bucket
\* holds and failed.
C5_Witness ==
    /\ halted /\ last.op = "apply_action" /\ last.result = "AssertionError:area"
    /\ AreaOf(dtypes[last.dtk], last.period, last.age) > 0
    /\ last.area > AreaOf(dtypes[last.dtk], last.period, last.age)
    /\ ~NotOperable(dtypes[last.dtk], last.acode, last.period, last.age)

\* C6 (as claimed): each target's destination age is its own override, else
\* the action's target age if it has one, else 0.
C6_TargetAgeActionDefaultElseZero ==
    Applied =>
        \A i \in 1..Len(last.routed) :
            last.routed[i].age =
                IF LastTargets[i].tage # None THEN Val(LastTargets[i].tage)
                ELSE IF actions[last.acode].targetage # None
                     THEN Val(actions[last.acode].targetage)
                ELSE 0

\* C6 (amended): each target's destination age is its own override; else the
\* source age when the action has no target age; else 0.
C6_TargetAgeSourceAgeElseZero ==
    Applied =>
        \A i \in 1..Len(last.routed) :
            /\ last.routed[i].age =
                  IF LastTargets[i].tage # None THEN Val(LastTargets[i].tage)
                  ELSE IF actions[last.acode].targetage = None THEN last.age
                  ELSE 0
            /\ last.routed[i].age \in DOMAIN dtypes[last.routed[i].dtk].areas[last.period]

\* C6 witness: a target without override of an action with a non-zero target
\* age received area at age 0.
C6_Witness ==
    /\ Applied
    /\ \E i \in 1..Len(last.routed) :
          /\ LastTargets[i].tage = None
          /\ actions[last.acode].targetage # None
          /\ Val(actions[last.acode].targetage) > 0
          /\ last.routed[i].age = 0
          /\ AreaOf(dtypes[last.routed[i].dtk], last.period, 0) >= last.routed[i].area

\* C7: every apply_action that goes through adds its area to its ledger cell
\* and leaves every other cell alone; an apply_action that does not go
\* through leaves the ledger alone.  So a cell is the sum of the areas applied
\* to it since the period was reset.
C7_LedgerAccumulates ==
    [][ApplyCallStep =>
          IF last'.result = "applied"
          THEN LET cell == << last'.acode, last'.dtk, last'.age >>
                   before == applied_actions[last'.period]
                   after == applied_actions'[last'.period]
               IN /\ DOMAIN after = DOMAIN before \cup { cell }
                  /\ after[cell] = Get(before, cell, 0) + last'.area
                  /\ \A c \in DOMAIN before \ { cell } : after[c] = before[c]
                  /\ \A q \in DOMAIN applied_actions \ { last'.period } :
                        applied_actions'[q] = applied_actions[q]
          ELSE applied_actions' = applied_actions]_vars

\* C7 witness: a ledger cell holds more than the last application to it.
C7_Witness ==
    /\ Applied
    /\ applied_actions[last.period][<< last.acode, last.dtk, last.age >>] > last.area

\* what grow(p, cascade=False) must leave of a development type
GrownOnePeriod(before, after, p) ==
    /\ DOMAIN after.areas = DOMAIN before.areas \cup { p + 1 }
    /\ \A a \in DOMAIN before.areas[p] \cup { x - 1 : x \in DOMAIN after.areas[p + 1] } :
          AreaOf(after, p + 1, a + 1) = AreaOf(before, p, a)
    /\ AreaOf(after, p + 1, 0) = 0
    /\ PeriodArea(after, p + 1) = PeriodArea(before, p)
    /\ \A q \in DOMAIN before.areas \ { p + 1 } : after.areas[q] = before.areas[q]

\* C8: grow(p, cascade=False) on a development type puts the area of every
\* bucket (p, a) into bucket (p+1, a+1), leaves no other area in period p+1,
\* and changes no bucket of any other period.
C8_GrowShiftsOnePeriod ==
    [][\A k \in DOMAIN dtypes : \A p \in 0..(horizon - 1) :
          CallDTypeGrow(k, p, FALSE) => GrownOnePeriod(dtypes[k], dtypes'[k], p)]_vars

\* C8 witness: a period holding area was grown over a next period that held
\* other buckets: the next period is now the shifted copy.
C8_Witness ==
    /\ last = NoCall /\ ncalls = MaxCalls
    /\ \E k \in DOMAIN dtypes : \E p \in 1..(horizon - 1) :
          /\ PeriodArea(dtypes[k], p) > 0
          /\ Cardinality(DOMAIN dtypes[k].areas[p]) > 1
          /\ dtypes[k].areas[p] # dtypes[k].areas[0]
          /\ DOMAIN dtypes[k].areas[p + 1] = { x + 1 : x \in DOMAIN dtypes[k].areas[p] }
          /\ \A a \in DOMAIN dtypes[k].areas[p] :
                dtypes[k].areas[p + 1][a + 1] = dtypes[k].areas[p][a]

\* C10: no growth step takes period 0 as its source: a step other than
\* apply_action that changes period 1 of a development type makes it the copy
\* of period 0 (same ages, same areas); and no step changes a period-0 bucket.
C10_PeriodZeroNeverGrown ==
    [][\A k \in DOMAIN dtypes :
          /\ SamePeriodAreas(dtypes[k], dtypes'[k], 0)
          /\ (last'.op # "apply_action" /\ dtypes'[k].areas[1] # dtypes[k].areas[1])
                => dtypes'[k].areas[1] = dtypes[k].areas[0]]_vars


\* the growth steps of a commit_actions call, in the order they ran
GrowthSteps(events) == SelectSeq(events, LAMBDA e : e[1] = "grow")

\* C9: during commit_actions(period = p0) growth runs once for each period
\* p0..horizon-1 in ascending order (all of them when the call returns), no
\* apply_action for a period q runs after the growth step whose source is q,
\* and every apply_action for a period q+1 runs after the growth of q.
C9_CommitGrowsOncePerPeriodThenRepairsNext ==
    last.op = "commit_actions" =>
        LET grown == GrowthSteps(last.events)
        IN /\ \A i \in 1..Len(grown) : grown[i][2] = last.period + i - 1
           /\ Len(grown) <= horizon - last.period
           /\ last.result = "returned" => Len(grown) = horizon - last.period
           /\ \A i, j \in 1..Len(last.events) :
                 (i < j /\ last.events[i][1] = "grow" /\ last.events[j][1] = "apply_action")
                     => last.events[j][2] > last.events[i][2]
           /\ \A j \in 1..Len(last.events) :
                 last.events[j][1] = "apply_action"
                     => \E i \in 1..(j - 1) :
                           last.events[i] = << "grow", last.events[j][2] - 1 >>

\* a commit with repair that grew two periods and re-applied actions of the
\* period in between
C9_Witness ==
    /\ last.op = "commit_actions"
    /\ last.result = "returned"
    /\ last.repair
    /\ \E i, j, k \in 1..Len(last.events) :
          /\ i < j /\ j < k
          /\ last.events[i][1] = "grow"
          /\ last.events[j] = << "apply_action", last.events[i][2] + 1 >>
          /\ last.events[k] = << "grow", last.events[i][2] + 1 >>
          /\ applied_actions[last.events[j][2]] # EmptyDict


\* ============================================= the area selector, stepwise
\* Scenario "relay": two types hold area; harvest moves the whole area to
\* type b at age 1, where harvest is operable again (from b, into the bucket
\* it came from); thinning regenerates the area in place at age 0, where
\* nothing is operable.  Every proportion is 100 %.
ScRelay ==
    [horizon |-> 2, max_age |-> 3,
     actions |-> [harv |-> [targetage |-> Some(0)], thin |-> [targetage |-> None]],
     oper_expr |->
       [harv |-> << [mask |-> Wild,
                     expr |-> Expr("and", << Cond("_age", ">=", 1), Cond("_age", "<=", 3) >>)] >>,
        thin |-> << [mask |-> Wild,
                     expr |-> Expr("and", << Cond("_age", ">=", 1), Cond("_age", "<=", 3) >>)] >>],
     transitions |->
       [harv |-> << [smask |-> Wild, scond |-> None,
                     targets |-> << Target(<< "b", "?" >>, 100, Some(1)) >>] >>,
        thin |-> << [smask |-> Wild, scond |-> None,
                     targets |-> << Target(Wild, 100, Some(0)) >>] >>],
     inventory |-> << [key |-> << "a", "1" >>, age |-> 3, area |-> 1],
                      [key |-> << "a", "1" >>, age |-> 2, area |-> 1],
                      [key |-> << "b", "1" >>, age |-> 1, area |-> 1] >>]

\* the scenarios the selector is run on: area*tprop is whole for every area
SelectorScenarios == { ScRegen, ScRelay }

InitSelector == \E sc \in SelectorScenarios : Load(sc)

\* operate(period, acode, target_area) is entered: line 32 ranks the types
SelectorCall(period, acode, target_area) ==
    /\ ~halted
    /\ ncalls < MaxCalls
    /\ selector.pc = "idle"
    /\ \E od \in { operable_dtypes(dtypes, acode, period) } :
          /\ dtypes' = od.dtypes
          /\ selector' = [pc |-> IF od.err # "" THEN "return" ELSE "outer",
                          period |-> period, acode |-> acode,
                          target |-> target_area, target_area |-> target_area,
                          odt |-> od.ret, applied |-> << >>, err |-> od.err,
                          start |-> dtypes, ledger |-> applied_actions]
    /\ ncalls' = ncalls + 1
    /\ UNCHANGED << loaded, applied_actions, last, halted, curvestate >>

\* line 34: the test of the outer loop
SelectorOuter ==
    /\ selector.pc = "outer"
    /\ selector' = [selector EXCEPT !.pc =
                      IF OuterCondition(selector.target_area, selector.odt)
                      THEN "inner" ELSE "return"]
    /\ UNCHANGED << loaded, dtypes, applied_actions, last, ncalls, halted, curvestate >>

\* lines 35-48: the test of the inner loop holds and one pass is made
SelectorPop ==
    /\ selector.pc = "inner"
    /\ InnerCondition(selector.target_area, selector.odt)
    /\ \E s \in Pop(Machine(dtypes, applied_actions), selector.odt, selector.period,
                    selector.acode, selector.target_area) :
          /\ dtypes' = s.m.dtypes
          /\ applied_actions' = s.m.applied_actions
          /\ selector' = [selector EXCEPT !.pc = IF s.m.err # "" THEN "return" ELSE "inner",
                                          !.odt = s.odt,
                                          !.target_area = s.target_area,
                                          !.applied = @ \o s.applied,
                                          !.err = s.m.err]
    /\ UNCHANGED << loaded, last, ncalls, halted, curvestate >>

\* line 50: the inner loop is over and the types are ranked again
SelectorRerank ==
    /\ selector.pc = "inner"
    /\ ~InnerCondition(selector.target_area, selector.odt)
    /\ \E od \in { operable_dtypes(dtypes, selector.acode, selector.period) } :
          /\ dtypes' = od.dtypes
          /\ selector' = [selector EXCEPT !.pc = IF od.err # "" THEN "return" ELSE "outer",
                                          !.odt = od.ret,
                                          !.err = od.err]
    /\ UNCHANGED << loaded, applied_actions, last, ncalls, halted, curvestate >>

\* operate returns or raises; the call closes the planning run
SelectorReturn ==
    /\ selector.pc = "return"
    /\ last' = [op |-> "operate",
                result |-> IF selector.err # "" THEN selector.err ELSE "returned",
                period |-> selector.period, acode |-> selector.acode,
                target |-> selector.target, target_area |-> selector.target_area,
                applied |-> selector.applied, start |-> selector.start,
                ledger |-> selector.ledger]
    /\ selector' = SelectorIdle
    /\ halted' = TRUE
    /\ UNCHANGED << loaded, dtypes, applied_actions, ncalls, curvestate >>

\* the steps of a running selector
SelectorRun == SelectorOuter \/ SelectorPop \/ SelectorRerank \/ SelectorReturn

\* the quotas asked of the selector: nothing, up to the whole area of the
\* period, and one unit more
SelectorTargets(period) == 0..(TotalArea(dtypes, period) + 1)

NextSelector ==
    \/ selector.pc = "idle" /\ Next
    \/ \E p \in 1..horizon, a \in DOMAIN actions :
          \E t \in SelectorTargets(p) : SelectorCall(p, a, t)
    \/ SelectorRun

SpecSelector == InitSelector /\ [][NextSelector]_vars

\* a selector that has begun runs on: nothing else runs in the program.  This
\* is WF_vars(SelectorRun) written out, <<SelectorRun>>_vars being enabled
\* exactly when selector.pc # "idle" (each pc has a step, and each step
\* changes pc or shortens odt)
SpecSelectorFair ==
    SpecSelector /\ ([]<>(selector.pc = "idle") \/ []<><<SelectorRun>>_vars)

\* the (type, age) pairs with positive operable area
OperablePairs(dts, acode, period) ==
    UNION { { << k, x >> : x \in { y \in DOMAIN dts[k].areas[period] :
                                     OperableArea(dts[k], acode, period, y, FALSE).ret > 0 } }
            : k \in DOMAIN dts }

\* a step of the selector that applied the action
SelectorApplied ==
    /\ selector.pc = "inner"
    /\ selector'.pc # "idle"
    /\ Len(selector'.applied) = Len(selector.applied) + 1

\* C11: every application made by operate is made at an age that is maximal
\* among the (development type, age) pairs that have positive operable area
\* for the action when the application is made
C11_AppliesToOldestOperable ==
    [][SelectorApplied =>
          \A pr \in OperablePairs(dtypes, selector.acode, selector.period) :
              pr[2] <= selector'.applied[Len(selector'.applied)].age]_vars

\* the application made to (dtk, age) routes area back into the bucket it
\* was taken from, which stays operable for the same action and period
RoutesBack(dts, acode, e) ==
    \E n \in 1..Len(dts[e.dtk].transitions[<< acode, e.age >>]) :
        /\ OverlayMask(e.dtk, dts[e.dtk].transitions[<< acode, e.age >>][n].tmask) = e.dtk
        /\ ResolveTargetAge(dts[e.dtk].transitions[<< acode, e.age >>][n].tage,
                            actions[acode].targetage, e.age) = e.age

RECURSIVE SumApplied(_, _)
SumApplied(applied, i) ==
    IF i > Len(applied) THEN 0 ELSE applied[i].area + SumApplied(applied, i + 1)

\* operate has returned (it did not raise)
OperateReturned == last.op = "operate" /\ last.result = "returned"

\* C13: when operate returns, the total area it applied is at most
\* target_area, and it is less only if no development type has operable
\* area left for the action in the period
C13_QuotaMetOrAreaExhausted ==
    OperateReturned =>
        /\ SumApplied(last.applied, 1) <= last.target
        /\ \/ SumApplied(last.applied, 1) = last.target
           \/ OperablePairs(dtypes, last.acode, last.period) = {}

\* operate applied the action, ran out of operable area and returned with
\* part of its quota unmet
C13_Witness ==
    /\ OperateReturned
    /\ SumApplied(last.applied, 1) > 0
    /\ SumApplied(last.applied, 1) < last.target
    /\ OperablePairs(dtypes, last.acode, last.period) = {}

\* the buckets the transitions of (acode, age) of type k route area into
Destinations(dts, k, acode, age) ==
    { << OverlayMask(k, dts[k].transitions[<< acode, age >>][n].tmask),
         ResolveTargetAge(dts[k].transitions[<< acode, age >>][n].tage,
                          actions[acode].targetage, age) >>
      : n \in 1..Len(dts[k].transitions[<< acode, age >>]) }

\* when operate was entered, the operable area for its action and period was
\* that of two age classes a1 < a2 of one development type k, the quota was
\* more than the area at a2 and at most the area of both, and the transitions
\* of the two classes route into neither of them, nor into any bucket as old
\* as a1 (to which a selector that ranks again after every application would
\* turn before a1)
TwoClasses(k, a1, a2) ==
    /\ a1 < a2
    /\ OperablePairs(last.start, last.acode, last.period) = { << k, a1 >>, << k, a2 >> }
    /\ AreaOf(last.start[k], last.period, a2) < last.target
    /\ last.target <= AreaOf(last.start[k], last.period, a1)
                        + AreaOf(last.start[k], last.period, a2)
    /\ \A x \in { a1, a2 } :
          /\ Destinations(last.start, k, last.acode, x) \cap { << k, a1 >>, << k, a2 >> } = {}
          /\ \A d \in Destinations(last.start, k, last.acode, x) : d[2] < a1

\* C14: for one development type with two operable age classes a1 < a2
\* holding A1 and A2 and a quota T with A2 < T <= A1 + A2, the transitions
\* routing into neither bucket (and into no bucket as old as a1), operate
\* applies A2 at age a2, then T - A2 at age a1, and leaves A1 - (T - A2) at
\* a1 and nothing at a2
C14_OlderClassFirstThenYounger ==
    \A k \in DOMAIN dtypes, a1 \in Ages, a2 \in Ages :
        (last.op = "operate" /\ TwoClasses(k, a1, a2)) =>
            /\ last.result = "returned"
            /\ last.applied =
                 << [dtk |-> k, age |-> a2, area |-> AreaOf(last.start[k], last.period, a2)],
                    [dtk |-> k, age |-> a1,
                     area |-> last.target - AreaOf(last.start[k], last.period, a2)] >>
            /\ AreaOf(dtypes[k], last.period, a2) = 0
            /\ AreaOf(dtypes[k], last.period, a1) =
                 AreaOf(last.start[k], last.period, a1)
                   - (last.target - AreaOf(last.start[k], last.period, a2))

\* the area a ledger of one period records for one action
LedgerTotal(aa, acode) == SumOver(aa, { c \in DOMAIN aa : c[1] = acode })

RECURSIVE ReplayedTotal(_, _, _)
ReplayedTotal(trace, acode, i) ==
    IF i > Len(trace) THEN 0
    ELSE (IF trace[i].op = "replay" /\ trace[i].acode = acode THEN trace[i].area ELSE 0)
         + ReplayedTotal(trace, acode, i + 1)

\* a step that is a call of repair_actions that returned
RepairedStep ==
    /\ last'.op = "repair_actions"
    /\ last'.result = "returned"
    /\ ncalls' = ncalls + 1

\* C15: after repair_actions(period), for every action of the recorded
\* schedule the area applied in the period is at most the area that was
\* recorded for it; each recorded cell was replayed once, with the smaller of
\* its recorded area and the operable area found, and the selector was called
\* once, with the recorded total less the replayed total
C15_RepairNeverExceedsRecorded ==
    [][RepairedStep =>
          \A a \in { c[1] : c \in DOMAIN applied_actions[last'.period] } :
              /\ LedgerTotal(applied_actions'[last'.period], a)
                   <= LedgerTotal(applied_actions[last'.period], a)
              /\ \A c \in { d \in DOMAIN applied_actions[last'.period] : d[1] = a } :
                    /\ Cardinality({ i \in 1..Len(last'.trace) :
                                       /\ last'.trace[i].op = "replay"
                                       /\ last'.trace[i].acode = a
                                       /\ last'.trace[i].dtk = c[2]
                                       /\ last'.trace[i].age = c[3] }) = 1
                    /\ \A i \in 1..Len(last'.trace) :
                          (/\ last'.trace[i].op = "replay"
                           /\ last'.trace[i].acode = a
                           /\ last'.trace[i].dtk = c[2]
                           /\ last'.trace[i].age = c[3]) =>
                              /\ last'.trace[i].recorded = applied_actions[last'.period][c]
                              /\ last'.trace[i].area =
                                   Min2(last'.trace[i].recorded, last'.trace[i].operable)
              /\ Cardinality({ i \in 1..Len(last'.trace) :
                                 /\ last'.trace[i].op = "operate"
                                 /\ last'.trace[i].acode = a }) = 1
              /\ \A i \in 1..Len(last'.trace) :
                    (last'.trace[i].op = "operate" /\ last'.trace[i].acode = a) =>
                        last'.trace[i].target =
                            LedgerTotal(applied_actions[last'.period], a)
                              - ReplayedTotal(last'.trace, a, 1)]_vars

\* repair_actions returned after finding less operable area than a cell
\* recorded and sending the selector for the shortfall, which it applied
\* elsewhere
C15_Witness ==
    /\ last.op = "repair_actions"
    /\ last.result = "returned"
    /\ \E i, j \in 1..Len(last.trace) :
          /\ last.trace[i].op = "replay"
          /\ last.trace[i].area < last.trace[i].recorded
          /\ last.trace[j].op = "operate"
          /\ last.trace[j].acode = last.trace[i].acode
          /\ last.trace[j].target > 0
          /\ LedgerTotal(applied_actions[last.period], last.trace[i].acode)
               > ReplayedTotal(last.trace, last.trace[i].acode, 1)

\* --------------------------------------------- compiling one expression
\* the conditions an expression of the compile runs is built from: bounds on
\* the age, on the period (one beyond the horizon) and on yield components
CompileConds_Age ==
    { Cond("_age", ">=", 1), Cond("_age", ">=", 3), Cond("_age", "<=", 2),
      Cond("_age", "<=", 0), Cond("_age", "=", 2) }
CompileConds_Period ==
    { Cond("_cp", "=", 1), Cond("_cp", ">=", 2), Cond("_cp", "<=", 1),
      Cond("_cp", "=", 3) }
CompileConds_Yield == { Cond("yvol", ">=", 4), Cond("yland", "<=", 6) }
CompileConds_All == CompileConds_Age \cup CompileConds_Period \cup CompileConds_Yield

\* one condition alone, or two joined by "and" or by "or"
CompileExpressions ==
    { Expr("", << c >>) : c \in CompileConds_All }
    \cup { Expr(o, << c[1], c[2] >>) :
              o \in { "and", "or" }, c \in CompileConds_All \X CompileConds_All }

\* Scenario "compile": one action whose operability is the expression e
ScCompile(e) ==
    [horizon |-> 2, max_age |-> 3,
     actions |-> [harv |-> [targetage |-> Some(0)]],
     oper_expr |-> [harv |-> << [mask |-> Wild, expr |-> e] >>],
     transitions |->
       [harv |-> << [smask |-> Wild, scond |-> None,
                     targets |-> << Target(Wild, 100, None) >>] >>],
     inventory |-> << [key |-> << "a", "1" >>, age |-> 2, area |-> 2],
                      [key |-> << "a", "1" >>, age |-> 0, area |-> 1] >>]

InitCompile == \E e \in CompileExpressions : Load(ScCompile(e))

\* what a query of a development type leaves in last
Query(op, dtype_key, acode, period, age, o) ==
    [op |-> op, result |-> o.err, dtk |-> dtype_key, acode |-> acode,
     period |-> period, age |-> age, ret |-> o.ret]

\* a call of DevelopmentType.is_operable(acode, period, age)
CallIsOperable(dtype_key, acode, period, age) ==
    Let(IsOperable(dtypes[dtype_key], acode, period, age), LAMBDA o :
        Step([dtypes EXCEPT ![dtype_key] = o.dt], applied_actions,
             Query("is_operable", dtype_key, acode, period, age, o)))

\* a call of DevelopmentType.operable_ages(acode, period)
CallOperableAges(dtype_key, acode, period) ==
    Let(OperableAges(dtypes[dtype_key], acode, period), LAMBDA o :
        Step([dtypes EXCEPT ![dtype_key] = o.dt], applied_actions,
             Query("operable_ages", dtype_key, acode, period, None, o)))

\* a call of DevelopmentType.operable_area(acode, period, age)
CallOperableArea(dtype_key, acode, period, age) ==
    Let(OperableArea(dtypes[dtype_key], acode, period, age, TRUE), LAMBDA o :
        Step([dtypes EXCEPT ![dtype_key] = o.dt], applied_actions,
             Query("operable_area", dtype_key, acode, period, age, o)))

NextCompile ==
    \/ \E k \in DOMAIN dtypes : CallCompileActions(k)
    \/ CallInitializeAreas
    \/ \E k \in DOMAIN dtypes, a \in DOMAIN actions, p \in 1..horizon, x \in Ages :
          CallIsOperable(k, a, p, x)
    \/ \E k \in DOMAIN dtypes, a \in DOMAIN actions, p \in 1..horizon :
          CallOperableAges(k, a, p)
    \/ \E k \in DOMAIN dtypes, a \in DOMAIN actions, p \in 1..horizon, x \in Ages :
          CallOperableArea(k, a, p, x)

SpecCompile == InitCompile /\ [][NextCompile]_vars

\* the action is defined for the type, compiles without error and is left
\* with no window in any period
NeverOperable(dt, acode) ==
    /\ acode \in DOMAIN dt.oper_expr
    /\ Let(CompileAction(dt, acode), LAMBDA r :
           r.err = "" /\ acode \notin DOMAIN r.dt.operability)

Queried ==
    /\ last.op \in { "is_operable", "operable_ages", "operable_area" }
    /\ NeverOperable(dtypes[last.dtk], last.acode)

\* C16: for an action that is defined for a development type and whose
\* compiled operability has no window in any period, every query answers
\* "not operable" without raising: is_operable returns False, operable_ages
\* an empty list, operable_area 0
C16_NeverOperableAnswersWithoutError ==
    Queried =>
        /\ last.result = ""
        /\ last.op = "is_operable" => last.ret = FALSE
        /\ last.op = "operable_ages" => last.ret = {}
        /\ last.op = "operable_area" => last.ret = 0

\* the expression of the compile runs, as written in the actions section
WrittenExpr == oper_expr["harv"][1].expr

AndOfAges(e) ==
    e.oper = "and" /\ \A i \in 1..Len(e.conds) : e.conds[i].lhs = "_age"

SetMin(S) == CHOOSE m \in S : \A n \in S : m <= n

\* the bounds the age conditions of e put on the age, with the defaults
LowerBounds(e) ==
    {0} \cup { e.conds[i].rhs :
                 i \in { j \in 1..Len(e.conds) : e.conds[j].rel \in { "=", ">=" } } }
UpperBounds(e) ==
    { max_age } \cup { e.conds[i].rhs :
                 i \in { j \in 1..Len(e.conds) : e.conds[j].rel \in { "=", "<=" } } }

\* the window of a narrowed interval: none when it is empty
Narrowed(e) ==
    IF SetMax(LowerBounds(e)) <= SetMin(UpperBounds(e))
    THEN << SetMax(LowerBounds(e)), SetMin(UpperBounds(e)) >> ELSE None

Compiled == last.op = "compile_actions" /\ last.result = ""

\* C17: an AND of age conditions compiles, for every period, to the window
\* [greatest lower bound or 0, least upper bound or max_age], or to none when
\* that interval is empty (the action is then dropped from the cache); every
\* window kept in the operability cache has lo <= hi
C17_AndNarrowsToIntervalOrNone ==
    /\ \A k \in DOMAIN dtypes : \A a \in DOMAIN dtypes[k].operability :
          \A p \in DOMAIN dtypes[k].operability[a] :
              \/ dtypes[k].operability[a][p] = None
              \/ dtypes[k].operability[a][p][1] <= dtypes[k].operability[a][p][2]
    /\ AndOfAges(WrittenExpr) =>
          /\ CompileOperExpr(EmptyDict, WrittenExpr) =
                [windows |-> Dict([p \in 1..horizon |-> Narrowed(WrittenExpr)]), err |-> ""]
          /\ \A k \in DOMAIN dtypes :
                /\ "harv" \in DOMAIN dtypes[k].operability =>
                      /\ Narrowed(WrittenExpr) # None
                      /\ dtypes[k].operability["harv"] =
                            Dict([p \in 1..horizon |-> Narrowed(WrittenExpr)])
                /\ Compiled /\ Narrowed(WrittenExpr) # None =>
                      "harv" \in DOMAIN dtypes[k].operability

\* an AND of a lower and an upper age bound was compiled and its window,
\* narrower than [0, max_age], is in the cache
C17_Witness ==
    /\ Compiled
    /\ AndOfAges(WrittenExpr)
    /\ \E k \in DOMAIN dtypes :
          /\ "harv" \in DOMAIN dtypes[k].operability
          /\ dtypes[k].operability["harv"][1][1] > 0
          /\ dtypes[k].operability["harv"][1][2] < max_age

WrittenOr(e) == e.oper = "or"
HasPeriodCond(e) == \E i \in 1..Len(e.conds) : e.conds[i].lhs = "_cp"

\* C18: compiling an expression whose conditions are joined by OR raises an
\* error if and only if one of its conditions is on the period (_cp): never
\* when all are on the age or on yield components, always when a condition
\* on the period is mixed in
C18_OrRaisesIffPeriodCond ==
    last.op = "compile_actions" /\ WrittenOr(WrittenExpr) =>
        (last.result # "" <=> HasPeriodCond(WrittenExpr))

\* the type has no transition for the action at the age
NoTransitions(dt, acode, age) == << acode, age >> \notin DOMAIN dt.transitions

\* C19: for a development type, action and age with no transitions defined,
\* the action never fires: a call of apply_action for them changes neither
\* the area of the source bucket nor the ledger of applied actions
C19_NoTransitionsNeverFires ==
    [][(/\ ApplyCallStep
        /\ NoTransitions(dtypes[last'.dtk], last'.acode, last'.age))
          => /\ AreaOf(dtypes'[last'.dtk], last'.period, last'.age)
                  = AreaOf(dtypes[last'.dtk], last'.period, last'.age)
             /\ applied_actions' = applied_actions]_vars

\* the mask names the key: theme by theme the key's code or the wildcard
Covers(mask, key) == \A ti \in 1..Len(key) : mask[ti] \in { "?", key[ti] }

\* the expressions of the actions section written for action a under a mask
\* that names key k, in the order of the section
ExprsFor(a, k) ==
    LET m == SelectSeq(oper_expr[a], LAMBDA e : Covers(e.mask, k))
    IN Dict([i \in 1..Len(m) |-> m[i].expr])

\* the target lists of the transitions section written for action a, source
\* age x, under a source mask that names key k
TargetsFor(a, k, x) ==
    { transitions[a][i].targets :
        i \in { j \in 1..Len(transitions[a]) :
                  /\ Covers(transitions[a][j].smask, k)
                  /\ x \in ResolveCondition(transitions[a][j].scond) } }

\* bucket (k, p, x) is the source bucket or a destination bucket of call c
Touched(c, k, p, x) ==
    /\ p = c.period
    /\ \/ k = c.dtk /\ x = c.age
       \/ \E i \in 1..Len(c.routed) : c.routed[i].dtk = k /\ c.routed[i].age = x

\* C20: after an apply_action that goes through, every destination key is in
\* the registry; a development type the call created carries the operability
\* expressions and the transition rules whose masks match its key, and no
\* other; a development type that was there before is the same one: same
\* expressions, rules and compiled windows, and the same area in every
\* bucket that is neither the source nor a destination of the call
C20_DestinationsRegisteredAndInherit ==
    [][AppliedStep =>
        /\ \A i \in 1..Len(last'.routed) : last'.routed[i].dtk \in DOMAIN dtypes'
        /\ \A k \in DOMAIN dtypes' \ DOMAIN dtypes :
              /\ \E i \in 1..Len(last'.routed) : last'.routed[i].dtk = k
              /\ \A a \in DOMAIN oper_expr :
                    /\ a \in DOMAIN dtypes'[k].oper_expr <=> ExprsFor(a, k) # << >>
                    /\ a \in DOMAIN dtypes'[k].oper_expr =>
                          dtypes'[k].oper_expr[a] = ExprsFor(a, k)
                    /\ \A x \in 0..max_age :
                          /\ << a, x >> \in DOMAIN dtypes'[k].transitions
                                <=> TargetsFor(a, k, x) # {}
                          /\ << a, x >> \in DOMAIN dtypes'[k].transitions =>
                                dtypes'[k].transitions[<< a, x >>] \in TargetsFor(a, k, x)
              /\ DOMAIN dtypes'[k].oper_expr \subseteq DOMAIN oper_expr
              /\ \A pr \in DOMAIN dtypes'[k].transitions :
                    pr[1] \in DOMAIN oper_expr /\ pr[2] \in 0..max_age
        /\ \A k \in DOMAIN dtypes :
              /\ k \in DOMAIN dtypes'
              /\ dtypes'[k].oper_expr = dtypes[k].oper_expr
              /\ dtypes'[k].transitions = dtypes[k].transitions
              /\ dtypes'[k].operability = dtypes[k].operability
              /\ \A p \in 0..horizon : \A x \in BucketAges(dtypes[k], dtypes'[k], p) :
                    \/ Touched(last', k, p, x)
                    \/ AreaOf(dtypes'[k], p, x) = AreaOf(dtypes[k], p, x)]_vars

\* an apply_action went through into a development type that holds no
\* starting inventory and carries fewer actions than the model defines: one
\* made by the call, without the action whose mask names another key
C20_Witness ==
    /\ last.op = "apply_action" /\ last.result = "applied"
    /\ \E i \in 1..Len(last.routed) :
          /\ last.routed[i].dtk # last.dtk
          /\ last.routed[i].dtk \in DOMAIN dtypes
          /\ DictSum(dtypes[last.routed[i].dtk].areas[0]) = 0
          /\ "harv" \in DOMAIN dtypes[last.routed[i].dtk].oper_expr
          /\ "thin" \notin DOMAIN dtypes[last.routed[i].dtk].oper_expr

\* ------------------------------------------------- buckets of the ledgers
\* a call of DevelopmentType.area(period, age, area, delta): a write
CallArea(dtype_key, period, age, area, delta) ==
    Step([dtypes EXCEPT ![dtype_key] = AreaWrite(@, period, age, area, delta)],
         applied_actions,
         [op |-> "area", result |-> "", dtk |-> dtype_key, period |-> period,
          age |-> age, area |-> area, delta |-> delta])

\* the write asked of a bucket, the one that leaves no area in it: as a
\* change (delta) all that it holds taken away, else the area 0
WriteArea(dt, period, age, delta) == IF delta THEN 0 - AreaOf(dt, period, age) ELSE 0

\* apply_action, growth and the compiler, with the area queries and writes
NextLedger ==
    \/ Next
    \/ \E k \in DOMAIN dtypes, a \in DOMAIN actions, p \in 1..horizon, x \in Ages :
          CallOperableArea(k, a, p, x)
    \/ \E k \in DOMAIN dtypes, p \in 1..horizon, d \in BOOLEAN :
          \E x \in DOMAIN dtypes[k].areas[p] :
              CallArea(k, p, x, WriteArea(dtypes[k], p, x, d), d)

\* the ledgers are followed from the "regen" scenario
InitLedger == Load(ScRegen)

SpecLedger == InitLedger /\ [][NextLedger]_vars

\* the buckets of type k, period p that this step takes out of the ledger
Removed(k, p) ==
    IF k \in DOMAIN dtypes' /\ p \in DOMAIN dtypes'[k].areas
    THEN DOMAIN dtypes[k].areas[p] \ DOMAIN dtypes'[k].areas[p]
    ELSE DOMAIN dtypes[k].areas[p]

\* this step removes buckets only as operable_area does: the bucket asked
\* about, holding less than area_epsilon, the query answering 0
RemovesOnlyByQuery ==
    \A k \in DOMAIN dtypes : \A p \in DOMAIN dtypes[k].areas :
        Removed(k, p) # {} =>
            /\ last'.op = "operable_area" /\ last'.ret = 0
            /\ last'.dtk = k /\ last'.period = p
            /\ Removed(k, p) = { last'.age }
            /\ Abs(dtypes[k].areas[p][last'.age]) < AreaEpsilon

\* C21 as stated: a bucket leaves a period's ledger only in an operable_area
\* query (the bucket holding less than area_epsilon, the query returning 0);
\* no other operation removes a bucket
C21_OnlyQueryRemovesBuckets == [][RemovesOnlyByQuery]_vars

\* this step rebuilds a period's ledger: reset_areas, alone or within grow
\* and initialize_areas
RebuildStep ==
    \/ CallInitializeAreas
    \/ \E k \in DOMAIN dtypes, p \in 0..(horizon - 1) : CallDTypeGrow(k, p, FALSE)
    \/ \E p \in 0..(horizon - 1), c \in BOOLEAN : CallGrow(p, c)

\* C21 as the code has it: outside the steps that rebuild a period's ledger
\* (reset_areas, grow, initialize_areas), a bucket leaves a ledger only in an
\* operable_area query, the bucket holding less than area_epsilon and the
\* query returning 0; area writes and apply_action keep every bucket, also
\* one whose area becomes 0
C21_OnlyQueryRemovesBucketsUnlessRebuilt ==
    [][~RebuildStep => RemovesOnlyByQuery]_vars

\* apply_action emptied a bucket, which stayed in the ledger with area 0
\* until the operable_area query that followed took it out
C21_Witness ==
    /\ last.op = "operable_area" /\ last.result = "" /\ last.ret = 0
    /\ ncalls = 2
    /\ last.age \notin DOMAIN dtypes[last.dtk].areas[last.period]
    /\ \E a \in DOMAIN actions :
          << a, last.dtk, last.age >> \in DOMAIN applied_actions[last.period]

\* ------------------------------------------- what a compiled window admits
\* age x meets condition c on the age
Satisfies(c, x) ==
    \/ c.rel = "=" /\ x = c.rhs
    \/ c.rel = ">=" /\ x >= c.rhs
    \/ c.rel = "<=" /\ x <= c.rhs

\* the compiled operability of the type lets the action go at age x in period p
Admits(dt, acode, p, x) ==
    /\ acode \in DOMAIN dt.operability
    /\ p \in DOMAIN dt.operability[acode]
    /\ dt.operability[acode][p] # None
    /\ x >= dt.operability[acode][p][1]
    /\ x <= dt.operability[acode][p][2]

AllOnAge(e) == \A i \in 1..Len(e.conds) : e.conds[i].lhs = "_age"

\* C28: an expression that is one condition on the age compiles, for every
\* period 1..horizon, to the window of exactly the ages that meet it:
\* _age >= k to [k, max_age], _age <= k to [0, k], _age = k to [k, k]
C28_SingleAgeConditionWindow ==
    (last.op = "compile_actions" /\ Len(WrittenExpr.conds) = 1 /\ AllOnAge(WrittenExpr)) =>
        /\ last.result = ""
        /\ \A k \in DOMAIN dtypes : \A p \in 1..horizon : \A x \in 0..max_age :
              Admits(dtypes[k], "harv", p, x) <=> Satisfies(WrittenExpr.conds[1], x)

\* C29: an OR of conditions on the age compiles to a window that holds every
\* age of 0..max_age meeting at least one of them
C29_OrAdmitsEveryAgeOfEitherCondition ==
    (last.op = "compile_actions" /\ WrittenOr(WrittenExpr) /\ AllOnAge(WrittenExpr)) =>
        /\ last.result = ""
        /\ \A k \in DOMAIN dtypes : \A p \in 1..horizon : \A x \in 0..max_age :
              (\E i \in 1..Len(WrittenExpr.conds) : Satisfies(WrittenExpr.conds[i], x))
                  => Admits(dtypes[k], "harv", p, x)

\* period p meets condition c on the period
SatisfiesPeriod(c, p) ==
    \/ c.rel = "=" /\ p = c.rhs
    \/ c.rel = ">=" /\ p >= c.rhs
    \/ c.rel = "<=" /\ p <= c.rhs

\* the periods of 1..horizon meeting every condition of e on the period
PeriodsOf(e) ==
    { p \in 1..horizon :
        \A i \in 1..Len(e.conds) :
            e.conds[i].lhs = "_cp" => SatisfiesPeriod(e.conds[i], p) }

\* C30: an AND with conditions on the period compiles without error, and the
\* periods given a window are exactly those of 1..horizon meeting every
\* condition on the period: _cp = k gives {k}, _cp >= k gives k..horizon,
\* _cp <= k gives 1..k
C30_AndPeriodsAreThoseSatisfying ==
    (/\ last.op = "compile_actions"
     /\ WrittenExpr.oper = "and"
     /\ HasPeriodCond(WrittenExpr)
     /\ \A i \in 1..Len(WrittenExpr.conds) : WrittenExpr.conds[i].lhs \in { "_cp", "_age" }) =>
        /\ last.result = ""
        /\ DOMAIN CompileOperExpr(EmptyDict, WrittenExpr).windows = PeriodsOf(WrittenExpr)

\* ------------------------------------------------- the schedule, run again
\* what operate can leave when started from the state the last call of it
\* started from, with the same arguments
OperateAgain ==
    operate(Machine(last.start, last.ledger), last.period, last.acode, last.target)

\* C25: operate started again from an equal model state, with the same
\* arguments, leaves the area ledgers and the ledger of applied actions it
\* left the first time, also when development types tie on their oldest
\* operable age
C25_OperateIsDeterministic ==
    OperateReturned =>
        \A o \in OperateAgain :
            /\ o.err = ""
            /\ SameAreas(o.dtypes, dtypes)
            /\ o.applied_actions = applied_actions

\* ------------------------------------------- interpolators and the registry
\* the caller's side of one call on the curves
CurveStep(reg, hp, call) ==
    /\ ~halted
    /\ ncalls < MaxCalls
    /\ curves' = reg
    /\ heap' = hp
    /\ last' = call
    /\ ncalls' = ncalls + 1
    /\ halted' = IsError(call.result)
    /\ UNCHANGED << loaded, dtypes, applied_actions, selector >>

\* the breakpoint lists interpolators are built from: ascending in x, the
\* first breakpoint at x = 0 or later, one to three breakpoints
InterpolatorInputs ==
    { << << a, Whole(u) >>, << 2, Whole(v) >>, << 3, Whole(w) >> >> :
         a \in { 0, 1 }, u \in 0..2, v \in 0..2, w \in 0..2 }
    \cup { << << a, Whole(u) >>, << 3, Whole(w) >> >> : a \in { 0, 1 }, u \in 0..2, w \in 0..2 }
    \cup { << << a, Whole(u) >> >> : a \in { 0, 2 }, u \in 1..2 }

\* Interpolator(points)(x)
CallInterpolate(points, x) ==
    Let(InterpCall(Interpolator(points), x), LAMBDA o :
        CurveStep(curves, heap,
                  [op |-> "interpolate", result |-> o.err, points |-> points,
                   x |-> x, ret |-> o.ret]))

\* Interpolator.lookup(y): i is bisect_left(self.y, y) - 1; past the last
\* y the last x, else x[i] where the slope m[i] is 0, else the x at which
\* segment i reaches y; an index of -1 is Python's last element, and m is
\* empty for a single breakpoint
Lookup(it, y) ==
    Let(Cardinality({ j \in 1..it.n : FLess(it.y[j], y) }) - 1, LAMBDA i :
        IF i = it.n - 1 THEN [ret |-> Whole(it.x[it.n]), err |-> ""]
        ELSE IF it.n = 1 THEN [ret |-> Whole(0), err |-> "IndexError"]
        ELSE IF PyAt(it.m, i) = Whole(0) THEN [ret |-> Whole(PyAt(it.x, i)), err |-> ""]
        ELSE [ret |-> FAdd(Whole(PyAt(it.x, i)),
                           FDiv(FSub(y, PyAt(it.y, i)), PyAt(it.m, i))),
              err |-> ""])

\* Interpolator(points).lookup(y)
CallLookup(points, y) ==
    Let(Lookup(Interpolator(points), y), LAMBDA o :
        CurveStep(curves, heap,
                  [op |-> "lookup", result |-> o.err, points |-> points,
                   y |-> y, ret |-> o.ret]))

NextInterpolator ==
    \/ \E points \in InterpolatorInputs, x \in 0..3 : CallInterpolate(points, x)
    \/ \E points \in InterpolatorInputs, y \in 0..3 : CallLookup(points, Whole(y))

SpecInterpolator == Init /\ [][NextInterpolator]_vars

\* C26: an interpolator evaluated at the x of one of its breakpoints returns
\* the y of that breakpoint, the first breakpoint (at x = 0 or not) and the
\* last included
C26_BreakpointsReproduced ==
    last.op = "interpolate" =>
        \A j \in 1..Len(last.points) :
            last.points[j][1] = last.x =>
                last.result = "" /\ last.ret = last.points[j][2]

\* ------------------------------------------------ the registry of curves
\* the Curve objects a caller builds before registering them: the points
\* given to core.Curve, its epsilon and its simplify flag
\* the points (0, ys[1]/d), (1, ys[2]/d), ...
CurvePoints(ys, d) == Dict([j \in 1..Len(ys) |-> << j - 1, Frac(ys[j], d) >>])

CurveInputs ==
    { [points |-> << << 0, Whole(0) >>, << 3, Whole(3) >> >>, epsilon |-> DefaultEpsilon,
       simplify |-> TRUE],
      [points |-> CurvePoints(<< 0, 10, 21, 30 >>, 5), epsilon |-> DefaultEpsilon,
       simplify |-> FALSE],
      [points |-> CurvePoints(<< 0, 10, 21, 30 >>, 5), epsilon |-> DefaultEpsilon,
       simplify |-> TRUE],
      [points |-> CurvePoints(<< 0, 10, 22, 30 >>, 5), epsilon |-> DefaultEpsilon,
       simplify |-> FALSE] }

\* the point lists handed to add_points
AddPointsInputs ==
    { << << 0, Whole(0) >>, << 3, Whole(3) >> >>,
      CurvePoints(<< 0, 10, 21, 30 >>, 5),
      << << 2, Frac(1, 5) >> >> }

\* a model with two further Curve objects, not registered yet
InitCurves ==
    \E i1 \in CurveInputs, i2 \in CurveInputs :
        LoadWith(ScRegen,
                 << NewCurve(i1.points, FALSE, ScRegen.max_age, i1.epsilon, i1.simplify),
                    NewCurve(i2.points, FALSE, ScRegen.max_age, i2.epsilon, i2.simplify) >>)

\* model.register_curve(curve), curve being object id
CallRegisterCurve(id) ==
    Let(RegisterCurve(curves, heap, id), LAMBDA r :
        CurveStep(r.curves, r.heap,
                  [op |-> "register_curve", result |-> "", id |-> id,
                   points |-> heap[id].points, ret |-> r.ret]))

\* curve.add_points(points), curve being object id
CallAddPoints(id, points) ==
    Let(AddPoints(heap[id], points, TRUE), LAMBDA o :
        CurveStep(curves, [heap EXCEPT ![id] = o.c],
                  [op |-> "add_points", result |-> o.err, id |-> id,
                   points |-> PadBack(PadFront(points), heap[id].max_x), ret |-> None]))

\* curve.simplify(), curve being object id
CallSimplify(id) ==
    Let(Simplify(heap[id], heap[id].points), LAMBDA o :
        CurveStep(curves, [heap EXCEPT ![id] = o.c],
                  [op |-> "simplify", result |-> o.err, id |-> id,
                   points |-> heap[id].points, ret |-> None]))

NextCurves ==
    \E id \in 1..Len(heap) :
        \/ CallRegisterCurve(id)
        \/ \E points \in AddPointsInputs : CallAddPoints(id, points)
        \/ CallSimplify(id)

SpecCurves == InitCurves /\ [][NextCurves]_vars

\* the curves stored in the registry have pairwise different point lists
DistinctEntries ==
    \A k1 \in DOMAIN curves, k2 \in DOMAIN curves :
        heap[curves[k1]].points = heap[curves[k2]].points => k1 = k2

\* C22: register_curve returns the object stored under the point list of its
\* argument: the object registered earlier with these points if there is
\* one (so two calls with equal point lists return the same object,
\* whichever came first), else the argument; the object returned is locked
\* and has the argument's points; no two entries of the registry have equal
\* point lists
C22_RegisterCurveDeduplicates ==
    [][/\ DistinctEntries'
       /\ last'.op = "register_curve" =>
            /\ last'.points \in DOMAIN curves => last'.ret = curves[last'.points]
            /\ last'.points \notin DOMAIN curves => last'.ret = last'.id
            /\ last.op = "register_curve" /\ last.points = last'.points
                   => last'.ret = last.ret
            /\ heap'[last'.ret].is_locked
            /\ heap'[last'.ret].points = last'.points
            /\ curves'[last'.points] = last'.ret]_vars

\* a curve was registered, and then a second object with the same points:
\* the call returned the first object
C22_Witness ==
    /\ last.op = "register_curve"
    /\ ncalls = 2
    /\ last.ret > 3
    /\ last.ret # last.id
    /\ heap[last.id].points = heap[last.ret].points
    /\ ~heap[last.id].is_locked

\* every key of the registry is the point list of the curve stored under it
KeysCurrent == \A k \in DOMAIN curves : heap[curves[k]].points = k

\* no entry of the registry is removed or replaced by the step
AppendOnly == \A k \in DOMAIN curves : k \in DOMAIN curves' /\ curves'[k] = curves[k]

\* C23: every key of the registry is the current point list of its curve,
\* no step removes or replaces an entry, and add_points or simplify on a
\* locked curve that is not special raises and leaves its points as they
\* were
C23_RegistryKeysCurrentAppendOnly ==
    [][/\ KeysCurrent
       /\ KeysCurrent'
       /\ AppendOnly
       /\ last'.op \in { "add_points", "simplify" }
            /\ heap[last'.id].is_locked /\ ~heap[last'.id].is_special
            => /\ last'.result = "AssertionError"
               /\ heap'[last'.id] = heap[last'.id]]_vars

\* a curve that is not special was registered and add_points on it raised
C23_Witness ==
    /\ last.op = "add_points"
    /\ last.result = "AssertionError"
    /\ ncalls = 2
    /\ last.id > 3
    /\ heap[last.id].is_locked
    /\ ~heap[last.id].is_special
    /\ curves[heap[last.id].points] = last.id

\* the sum of the curve with points q is the sum with points p, or differs
\* from it by a relative error below epsilon
SumsClose(p, q, max_x, epsilon) ==
    Let(SumCurve(p, max_x).ret, LAMBDA a :
        Let(SumCurve(q, max_x).ret, LAMBDA b :
            \/ a = b
            \/ a # Whole(0) /\ FLess(FDiv(FAbs(FSub(b, a)), FAbs(a)), epsilon)))

\* C27: after simplify (called directly or by add_points) the curve has no
\* more points than it had, and its sum over 0..max_x differs from the sum
\* it had by a relative error below its epsilon
C27_SimplifyWithinEpsilon ==
    last.op \in { "simplify", "add_points" } /\ last.result = "" =>
        /\ Len(heap[last.id].points) <= Len(last.points)
        /\ SumsClose(last.points, heap[last.id].points, heap[last.id].max_x,
                     heap[last.id].epsilon)

\* simplify removed a point of the curve and changed its sum
C27_Witness ==
    /\ last.op = "simplify"
    /\ last.result = ""
    /\ Len(heap[last.id].points) < Len(last.points)
    /\ SumCurve(heap[last.id].points, heap[last.id].max_x)
         # SumCurve(last.points, heap[last.id].max_x)

\* ------------------------------------------------------ output evaluation
\* model.outputs[code](period)
CallOutput(code, period) ==
    Let(OutputCall(outputs[code], period, << OneFactor >>, dtypes), LAMBDA r :
        Step(r.dtypes, applied_actions,
             [op |-> "output", result |-> "", code |-> code, period |-> period,
              ret |-> r.ret]))

\* the codes of the landscape section, theme by theme
ThemeCodes == << { "a", "b" }, { "1", "2" } >>

\* the first nthemes tokens of a basic expression, which _compile_basic takes
\* for its mask unless the first token is "@", "_" or an action code: the
\* expression "_INVENT _AREA", written without a mask, gives up its two
\* keywords
MaskTokens(expr) == IF expr.mask = None THEN << "_invent", "_area" >> ELSE expr.mask

\* the exception of _compile_basic, if any: unmask looks every token that is
\* not "?" up in the codes of its theme
CompileBasicError(expr) ==
    IF \E ti \in 1..Len(ThemeCodes) :
          MaskTokens(expr)[ti] # "?" /\ MaskTokens(expr)[ti] \notin ThemeCodes[ti]
    THEN "KeyError" ELSE ""

\* the basic expressions a caller builds an Output from: without a mask,
\* with the mask of wildcards, with a mask that names a code
NewOutputExpressions ==
    { BasicExpr(None, None), BasicExpr(<< "?", "?" >>, None), BasicExpr(<< "a", "?" >>, None) }

\* Output(parent=model, expression=expr)(period)
CallNewOutput(expr, period) ==
    IF CompileBasicError(expr) # ""
    THEN Step(dtypes, applied_actions,
              [op |-> "new_output", result |-> CompileBasicError(expr), expr |-> expr,
               period |-> period, ret |-> Whole(0)])
    ELSE Let(OutputCall(CompileBasic([expr EXCEPT !.mask = MaskTokens(expr)], OneFactor,
                                     DOMAIN dtypes, max_age),
                        period, << OneFactor >>, dtypes), LAMBDA r :
            Step(r.dtypes, applied_actions,
                 [op |-> "new_output", result |-> "", expr |-> expr, period |-> period,
                  ret |-> r.ret]))

NextOutputs ==
    \/ Next
    \/ \E code \in DOMAIN outputs, period \in 0..horizon : CallOutput(code, period)
    \/ \E expr \in NewOutputExpressions, period \in 0..horizon : CallNewOutput(expr, period)

InitOutputs == Load(ScLossy)

SpecOutputs == InitOutputs /\ [][NextOutputs]_vars

\* what the output o gives at a period in the current state
ValueOf(o, period, factors) == OutputCall(o, period, factors, dtypes).ret

\* the terms of the summary output o from term i on, each with its sign
RECURSIVE SignedSum(_, _, _)
SignedSum(o, i, period) ==
    IF i > Len(o.ocomps) THEN Whole(0)
    ELSE FAdd(FMul(Whole(o.signs[i]),
                   ValueOf(o.ocomps[i], period, << o.factors[i], OneFactor >>)),
              SignedSum(o, i + 1, period))

\* C24: a summary output evaluates to the sum over its terms of the sign of
\* the term (+1 or -1) times the value of the term; "o1 - o2" gives
\* o1(period) - o2(period)
C24_SummaryIsSignedSum ==
    last.op = "output" /\ ~outputs[last.code].is_basic =>
        last.ret = SignedSum(outputs[last.code], 1, last.period)

\* ------------------------------------------- a period without a window
\* expressions for one period: an empty age range, and an age range
EmptyRangeIn(p) ==
    { Expr("and", << Cond("_cp", "=", p), Cond("_age", ">=", 3), Cond("_age", "<=", 2) >>),
      Expr("and", << Cond("_cp", "=", p), Cond("_age", "<=", 0), Cond("_age", ">=", 1) >>) }

RangeIn(p) ==
    { Expr("and", << Cond("_cp", "=", p), Cond("_age", ">=", 1) >>),
      Expr("and", << Cond("_cp", "=", p), Cond("_age", "<=", 2) >>) }

\* Scenario "windows": the action has two *OPERABLE entries, e1 and e2
ScWindows(e1, e2) ==
    [horizon |-> 2, max_age |-> 3,
     actions |-> [harv |-> [targetage |-> Some(0)]],
     oper_expr |-> [harv |-> << [mask |-> Wild, expr |-> e1], [mask |-> Wild, expr |-> e2] >>],
     transitions |->
       [harv |-> << [smask |-> Wild, scond |-> None,
                     targets |-> << Target(Wild, 100, None) >>] >>],
     inventory |-> << [key |-> << "a", "1" >>, age |-> 2, area |-> 2],
                      [key |-> << "a", "1" >>, age |-> 0, area |-> 1] >>]

InitWindows ==
    \E p \in 1..2 : \E e1 \in EmptyRangeIn(p), e2 \in RangeIn(3 - p) :
        Load(ScWindows(e1, e2)) \/ Load(ScWindows(e2, e1))

SpecWindows == InitWindows /\ [][NextCompile]_vars

\* the compiled mapping of the action holds None for the period and a window
\* for another period
NoneAmongWindows(dt, acode, period) ==
    /\ acode \in DOMAIN dt.operability
    /\ period \in DOMAIN dt.operability[acode]
    /\ dt.operability[acode][period] = None
    /\ \E q \in DOMAIN dt.operability[acode] : dt.operability[acode][q] # None

ExpressionAdmits(dt, acode, period, age) ==
    /\ acode \in DOMAIN dt.oper_expr
    /\ Let(CompileAction(dt, acode), LAMBDA r :
           /\ r.err = ""
           /\ Let(IsOperable(r.dt, acode, period, age), LAMBDA o : o.err = "" /\ o.ret))

\* the step is a call of apply_action on a development type whose
\* operability of the action was not compiled, for an age the expression
\* admits, with an area that is positive and in the bucket
AppliedUncompiled ==
    /\ last'.op = "apply_action"
    /\ ncalls' = ncalls + 1
    /\ last'.dtk \in DOMAIN dtypes
    /\ last'.acode \notin DOMAIN dtypes[last'.dtk].operability
    /\ ExpressionAdmits(dtypes[last'.dtk], last'.acode, last'.period, last'.age)
    /\ last'.area > 0
    /\ AreaOf(dtypes[last'.dtk], last'.period, last'.age) >= last'.area

\* C32: apply_action on a development type for which the action was not
\* compiled before, with an age the operability expression admits and enough
\* area, succeeds
C32_ApplyCompilesOnDemand ==
    [][AppliedUncompiled => last'.result = "applied"]_vars

\* ------------------------------------------------ failure while routing
\* the call ended with an error raised after the assertions, while its
\* targets were processed
FailedInTargets ==
    /\ ApplyCallStep
    /\ last'.dtk \in DOMAIN dtypes
    /\ last'.result \in { "KeyError", "AssertionError" }

\* every bucket of every development type of d1 holds the same area in d2,
\* and a type that d2 has more holds no area
AreasAsBefore(d1, d2) ==
    \A k \in DOMAIN d2 : \A p \in DOMAIN d2[k].areas :
        IF k \in DOMAIN d1 THEN SamePeriodAreas(d1[k], d2[k], p)
        ELSE \A x \in DOMAIN d2[k].areas[p] : d2[k].areas[p][x] = 0

\* C33: an apply_action that ends with an error raised while its targets
\* are processed leaves the area of every bucket and the ledger of applied
\* actions as they were before the call
C33_FailedApplyChangesNothing ==
    [][FailedInTargets =>
          /\ AreasAsBefore(dtypes, dtypes')
          /\ applied_actions' = applied_actions]_vars

\* C34: a basic inventory-area output written without a mask gives, for a
\* period, the total area of the period over every development type there
\* is when it is evaluated
C34_UnmaskedOutputIsInventory ==
    last.op = "new_output" /\ last.expr.mask = None =>
        /\ last.result = ""
        /\ last.ret = Whole(TotalArea(dtypes, last.period))

\* ------------------------------------------------ resetting the ledger
\* WoodstockModel.reset_actions(period, acode): the entry of the action in
\* the period becomes an empty dictionary
reset_actions_of(aa, period, acode) ==
    [aa EXCEPT ![period] =
        Dict([k \in { k \in DOMAIN aa[period] : k[1] # acode } |-> aa[period][k]])]

\* a call of reset_actions(period) (acode "") or reset_actions(period, acode);
\* the call is remembered with the number of ledger cells it discarded
CallResetActionsOf(period, acode) ==
    /\ ~halted
    /\ applied_actions' = IF acode = "" THEN reset_actions(applied_actions, period)
                          ELSE reset_actions_of(applied_actions, period, acode)
    /\ last' = [op |-> "reset_actions", result |-> "", period |-> period, acode |-> acode,
                dropped |-> Cardinality(DOMAIN applied_actions[period])
                            - Cardinality(DOMAIN applied_actions'[period])]
    /\ UNCHANGED << loaded, dtypes, ncalls, halted, selector, curvestate >>

\* a call of WoodstockModel.grow(1, True) between the applications of two
\* periods: like initialize_areas it is not counted against MaxCalls, the
\* areas it writes being a function of those of period 1
CallGrowAhead ==
    /\ ~halted
    /\ dtypes' = grow(dtypes, 1, TRUE)
    /\ last' = NoCall
    /\ UNCHANGED << loaded, applied_actions, ncalls, halted, selector, curvestate >>

\* applications and growth, with the resets of the ledger
NextReset ==
    \/ \E k \in DOMAIN dtypes, a \in DOMAIN actions, p \in 1..horizon, x \in Ages :
          \E area \in ApplyAreas(dtypes[k], p, x) :
              CallApplyAction(k, a, p, x, area)
    \/ \E k \in DOMAIN dtypes : CallCompileActions(k)
    \/ CallInitializeAreas
    \/ CallGrowAhead
    \/ \E p \in 1..horizon, a \in {""} \cup DOMAIN actions : CallResetActionsOf(p, a)

\* the resets are followed from the "split" scenario
InitReset == Load(ScSplit)

SpecReset == InitReset /\ [][NextReset]_vars

\* the ledger cells of one period that a reset of acode ("" for every
\* action) has to discard
Discarded(aa, period, acode) ==
    { k \in DOMAIN aa[period] : acode = "" \/ k[1] = acode }

\* C35: reset_actions(period) empties the applied-action ledger of that
\* period and reset_actions(period, acode) the entries of that action in it;
\* the cells of every other period, the cells of the other actions and the
\* area of every bucket of every development type are unchanged
C35_ResetActionsFrame ==
    [][last'.op = "reset_actions" =>
        /\ dtypes' = dtypes
        /\ \A q \in DOMAIN applied_actions : q # last'.period =>
              applied_actions'[q] = applied_actions[q]
        /\ DOMAIN applied_actions'[last'.period] =
              DOMAIN applied_actions[last'.period]
                  \ Discarded(applied_actions, last'.period, last'.acode)
        /\ \A k \in DOMAIN applied_actions'[last'.period] :
              applied_actions'[last'.period][k] = applied_actions[last'.period][k]]_vars

\* a reset of one period has discarded cells while another period keeps its
\* own
C35_Witness ==
    /\ last.op = "reset_actions" /\ last.acode = "" /\ last.dropped > 0
    /\ applied_actions[last.period] = EmptyDict
    /\ \E q \in DOMAIN applied_actions : applied_actions[q] # EmptyDict

\* --------------------------------------------- lookup on breakpoints
\* the y values of the breakpoints rise strictly
StrictlyIncreasing(points) ==
    \A j \in 1..(Len(points) - 1) : FLess(points[j][2], points[j + 1][2])

\* the segment lookup reads for y has slope 0
OnFlatSegment(it, y) ==
    /\ it.n > 1
    /\ Let(Cardinality({ j \in 1..it.n : FLess(it.y[j], y) }) - 1, LAMBDA i :
           i # it.n - 1 /\ PyAt(it.m, i) = Whole(0))

\* C36: for an interpolator whose y values rise strictly, lookup of the y
\* of a breakpoint returns the x of that breakpoint, the first breakpoint
\* included; and lookup raises nothing where the segment it reads has slope 0
C36_LookupInvertsBreakpoints ==
    last.op = "lookup" =>
        /\ StrictlyIncreasing(last.points) =>
              \A j \in 1..Len(last.points) :
                  last.points[j][2] = last.y =>
                      last.result = "" /\ last.ret = Whole(last.points[j][1])
        /\ OnFlatSegment(Interpolator(last.points), last.y) => last.result = ""

\* ------------------------------------------- derived yield components
\* the period lengths of the curves; common.PERIOD_LENGTH_DEFAULT is not
\* among the sources
PeriodLengths == { 2, 10 }

\* the points Curve.mai hands to the new curve: (0, 0.) and, for every
\* later x of the domain, self[x] / (float(x) * period_length); or the
\* exception of a sample
RECURSIVE MaiPoints(_, _, _, _)
MaiPoints(it, x, max_x, period_length) ==
    IF x > max_x THEN [points |-> << >>, err |-> ""]
    ELSE Let(InterpCall(it, x), LAMBDA v :
            IF v.err # "" THEN [points |-> << >>, err |-> v.err]
            ELSE Let(MaiPoints(it, x + 1, max_x, period_length), LAMBDA r :
                    [points |-> << << x, FDiv(v.ret, Whole(x * period_length)) >> >>
                                    \o r.points,
                     err |-> r.err]))

\* Curve.mai(): the new Curve, built with simplification; the domain of the
\* new curve is taken to end where that of the curve ends
Mai(c, period_length) ==
    Let(MaiPoints(Interpolator(c.points), 1, c.max_x, period_length), LAMBDA r :
        IF r.err # "" THEN [c |-> c, err |-> r.err]
        ELSE [c |-> NewCurve(<< << 0, Whole(0) >> >> \o r.points, FALSE, c.max_x,
                             DefaultEpsilon, TRUE),
              err |-> ""])

\* the method of Curve that the resolver of each keyword calls
Resolvers == [cai |-> "mai", mai |-> "mai"]

\* _resolver_cai and _resolver_mai on the curve that is object id: the
\* curve of the method is built and registered
CallResolver(keyword, id, period_length) ==
    Let(Mai(heap[id], period_length), LAMBDA o :
        IF o.err # ""
        THEN CurveStep(curves, heap,
                       [op |-> "resolve", result |-> o.err, keyword |-> keyword, id |-> id,
                        period_length |-> period_length, ret |-> 0])
        ELSE Let(RegisterCurve(curves, Append(heap, o.c), Len(heap) + 1), LAMBDA r :
                CurveStep(r.curves, r.heap,
                          [op |-> "resolve", result |-> "", keyword |-> keyword, id |-> id,
                           period_length |-> period_length, ret |-> r.ret])))

\* the curves a resolver is given: the common curves and the two curves
\* built at the start, not the curves derived since
Declared == 1..5

NextResolvers ==
    \E keyword \in DOMAIN Resolvers, id \in Declared, period_length \in PeriodLengths :
        Resolvers[keyword] = "mai" /\ CallResolver(keyword, id, period_length)

\* a model with two further curves, one of them a line through the origin
InitResolvers ==
    \E i \in CurveInputs :
        LoadWith(ScRegen,
                 << NewCurve(i.points, FALSE, ScRegen.max_age, i.epsilon, i.simplify),
                    NewCurve(<< << 0, Whole(0) >>, << 3, Whole(3) >> >>, FALSE,
                             ScRegen.max_age, DefaultEpsilon, TRUE) >>)

SpecResolvers == InitResolvers /\ [][NextResolvers]_vars

\* the value of a curve at a whole x
ValueAt(c, x) == InterpCall(Interpolator(c.points), x).ret

\* y(x) - y(x - 1), over the length of a period
PeriodicIncrement(c, x, period_length) ==
    FDiv(FSub(ValueAt(c, x), ValueAt(c, x - 1)), Whole(period_length))

C38_AreasNeverNegative ==
    \A k \in DOMAIN dtypes : \A p \in DOMAIN dtypes[k].areas :
        \A x \in DOMAIN dtypes[k].areas[p] : dtypes[k].areas[p][x] >= 0

\* an application has taken all the area of its bucket
C38_Witness ==
    /\ last.op = "apply_action" /\ last.result = "applied" /\ last.area > 0
    /\ last.age \in DOMAIN dtypes[last.dtk].areas[last.period]
    /\ dtypes[last.dtk].areas[last.period][last.age] = 0

\* ------------------------------------------------------------- the reads
\* a call of DevelopmentType.area(period, age): a read
CallAreaRead(dtype_key, period, age) ==
    Let(AreaRead(dtypes[dtype_key], period, age), LAMBDA rd :
        Step([dtypes EXCEPT ![dtype_key] = rd.dt], applied_actions,
             [op |-> "area_read", result |-> "", dtk |-> dtype_key, period |-> period,
              age |-> age, ret |-> rd.val]))

\* WoodstockModel.operated_area(acode, period, dtype_key, age): 0 when the
\* period holds nothing of the action; else the cell is read through the
\* nested defaultdicts, which gain the cell, an empty dictionary, when it is
\* not there, and adding that to the result raises TypeError
OperatedArea(aa, acode, period, dtype_key, age) ==
    IF \A k \in DOMAIN aa[period] : k[1] # acode
    THEN [applied_actions |-> aa, ret |-> 0, err |-> ""]
    ELSE IF << acode, dtype_key, age >> \in DOMAIN aa[period]
    THEN [applied_actions |-> aa, ret |-> aa[period][<< acode, dtype_key, age >>], err |-> ""]
    ELSE [applied_actions |-> [aa EXCEPT ![period] =
                                  Put(@, << acode, dtype_key, age >>, EmptyDict)],
          ret |-> 0, err |-> "TypeError"]

\* a call of operated_area(acode, period, dtype_key, age)
CallOperatedArea(acode, period, dtype_key, age) ==
    Let(OperatedArea(applied_actions, acode, period, dtype_key, age), LAMBDA o :
        Step(dtypes, o.applied_actions,
             [op |-> "operated_area", result |-> o.err, dtk |-> dtype_key,
              acode |-> acode, period |-> period, age |-> age, ret |-> o.ret]))

\* applications, with the reads of the two ledgers
NextReads ==
    \/ \E k \in DOMAIN dtypes, a \in DOMAIN actions, p \in 1..horizon, x \in Ages :
          \E area \in ApplyAreas(dtypes[k], p, x) :
              CallApplyAction(k, a, p, x, area)
    \/ \E k \in DOMAIN dtypes : CallCompileActions(k)
    \/ CallInitializeAreas
    \/ \E k \in DOMAIN dtypes, p \in 0..horizon, x \in Ages : CallAreaRead(k, p, x)
    \/ \E k \in DOMAIN dtypes, a \in DOMAIN actions, p \in 1..horizon, x \in Ages :
          CallOperatedArea(a, p, k, x)

\* the reads are followed from the "split" scenario
InitReads == Load(ScSplit)

SpecReads == InitReads /\ [][NextReads]_vars

\* the buckets of every period of every development type are the same ages
\* before and after the step
SameBuckets ==
    /\ DOMAIN dtypes' = DOMAIN dtypes
    /\ \A k \in DOMAIN dtypes : \A p \in DOMAIN dtypes[k].areas :
          DOMAIN dtypes'[k].areas[p] = DOMAIN dtypes[k].areas[p]

\* the cells of every period of the applied-action ledger are the same
\* before and after the step
SameCells ==
    \A p \in DOMAIN applied_actions :
        DOMAIN applied_actions'[p] = DOMAIN applied_actions[p]

\* C39: a read of area(period, age) leaves the age buckets of the period as
\* they were; operated_area(acode, period, dtype_key, age) leaves the keys
\* of the applied-action ledger as they were and returns 0 for a cell
\* without a recorded application
C39_ReadsChangeNothing ==
    [][/\ last'.op = "area_read" => SameBuckets
       /\ last'.op = "operated_area" =>
            /\ SameCells
            /\ << last'.acode, last'.dtk, last'.age >>
                   \notin DOMAIN applied_actions[last'.period] =>
                       last'.result = "" /\ last'.ret = 0]_vars
====
